---- MODULE Spec2Model ----
(***************************************************************************)
(* The RFID access-control reader (rfid_reader.py), the test simulator     *)
(* (test_simulator.py) and the server's store (app.py), with the report    *)
(* analytics.py draws from it, as state machines.                          *)
(*                                                                         *)
(* Time is counted in ticks of half a second, the smallest duration the    *)
(* program sleeps (TicksPerSecond ticks make one second).  One variable,   *)
(* clock, is the wall clock that time.time() and datetime.now() read; an   *)
(* action advances it by the time its code sleeps or waits.                *)
(***************************************************************************)
EXTENDS Integers, Sequences, FiniteSets, TLC

VARIABLES
    network,              \* environment: "flaky" (a fetch may fail, be slow, and
                          \* answer anything), "up" (the server answers at once),
                          \* "down" (the server is lost once the reader runs),
                          \* "served" (app.py answers, from its store), or
                          \* "lost" and then "healed" (no fetch is answered,
                          \* until every fetch is)
    pc,                   \* reader: "init" before run(), "running" in its loop
    clock,                \* the wall clock, in ticks
    reads,                \* iterations of run()'s loop that read a tag so far
    collaborators_cache,  \* rfid_reader.py:21
    cache_last_update,    \* rfid_reader.py:22   (None or a time)
    presence_control,     \* rfid_reader.py:26
    session_stats,        \* rfid_reader.py:29
    last_tag,             \* run(): rfid_reader.py:259
    last_read_time,       \* run(): rfid_reader.py:260
    last,                 \* history: what the last iteration of run() did
    prev_event,           \* history: per tag, the kind of its latest event
    last_allowed,         \* history: per tag, the time of its latest read
                          \*          that passed the debounce
    entry_read_at,        \* history: per tag, the time of the read that gave
                          \*          its latest Entry
    ever_fetched,         \* history: tags of every snapshot fetched so far
    moves,                \* history: per tag, the kind of its latest Entry or
                          \*          Exit, and its Entries less its Exits
    tally,                \* history: the Unknown and Denied events produced
                          \*          so far, and the durations of the Exits
    step,                 \* run(), statement by statement: where the loop is
    cur,                  \* run(), statement by statement: the read in hand
    done,                 \* run(), statement by statement: reads dealt with
    sim_pc,               \* simulator: "init" before RFIDSimulator(), then "ready"
    sim_collaborators,    \* test_simulator.py:19
    sim_presence_control, \* test_simulator.py:20
    sim_last,             \* history: what the simulator's last call did
    sim_loaded,           \* history: a load of the simulator has succeeded
    sim_moves,            \* history: as moves, for the simulator
    sim_ops,              \* simulator calls so far
    collaborators_table,  \* app.py:31  table collaborators, by id
    collaborators_seq,    \* app.py:32  the largest id given so far (AUTOINCREMENT)
    access_logs,          \* app.py:41  table access_logs, in the order of its ids
    srv_last,             \* history: the last request for a collaborator and
                          \*          the status it was answered with
    submitted,            \* history: the events POST /api/logs/access received
    admin_ops,            \* requests for collaborators so far
    auth_tokens,          \* app.py:52  table auth_tokens, by token
    utc_offset,           \* the host's time zone: local time less UTC, seconds
    srv_auth              \* history: the Authorization header of the last
                          \*          request made of app.py directly

reader_vars == <<pc, clock, reads, collaborators_cache, cache_last_update,
                 presence_control, session_stats, last_tag, last_read_time,
                 last, prev_event, last_allowed, entry_read_at, ever_fetched,
                 moves, tally, step, cur, done>>

sim_vars == <<sim_pc, sim_collaborators, sim_presence_control, sim_last,
              sim_loaded, sim_moves, sim_ops>>

store_vars == <<collaborators_table, collaborators_seq, srv_last, admin_ops>>

log_vars == <<access_logs, submitted>>

auth_vars == <<auth_tokens, utc_offset, srv_auth>>

server_vars == <<store_vars, log_vars, auth_vars>>

vars == <<network, reader_vars, sim_vars, server_vars>>

----------------------------------------------------------------------------
(* Bounds of the model *)

MaxReads == 4           \* iterations of the reader's loop, network up or down
MaxFlakyReads == 2      \* iterations of the reader's loop, network flaky
MaxFetchDelay == 1      \* ticks a slow GET of the snapshot takes
MaxSimOps == 3          \* calls made on the simulator once constructed
StartTime == 1          \* the clock when the program starts (time.time() > 0)
MaxServedReads == 3     \* iterations of the reader's loop, app.py serving
MaxAdminOps == 2        \* requests for collaborators made to app.py
MaxElapses == 3         \* times three hours pass on the host of app.py

(* Program constants *)

TicksPerSecond == 2
CACHE_REFRESH_INTERVAL == 300
DEBOUNCE_TIME == 3
EntryLedSeconds == 5
ExitLedSeconds == 2
DeniedLedSeconds == 5
UnknownBlinkTimes == 10
SecondsPerDay == 86400

Seconds(n) == n * TicksPerSecond
HalfSecond == TicksPerSecond \div 2

----------------------------------------------------------------------------
(* Python values *)

None == <<>>
Some(x) == <<x>>
\* Python truth of an optional number: None and 0 are false.
Truthy(opt) == opt # None /\ opt[1] # 0

EmptyDict == <<>>
\* d[k] = v on a dict
DictSet(d, k, v) == [x \in (DOMAIN d) \cup {k} |-> IF x = k THEN v ELSE d[x]]
\* d.get(k, default)
DictGet(d, k, default) == IF k \in DOMAIN d THEN d[k] ELSE default

Tags == {"RFID001", "RFID999"}
UnknownName == "Desconhecido"

\* A row of the server's answer to GET /api/rfid/collaborators.
Collab(n, a) == [name |-> n, has_access |-> a]

Granted == [t \in {"RFID001"} |-> Collab("Joao Silva", TRUE)]
Revoked == [t \in {"RFID001"} |-> Collab("Joao Silva", FALSE)]
Renamed == [t \in {"RFID001"} |-> Collab("Ana Costa", TRUE)]

\* The mappings the server may answer with (app.py, get_rfid_data): a holder
\* with access, the same holder without, the tag under another name, and
\* nobody.  No mapping holds RFID999.
Snapshots == {EmptyDict, Granted, Revoked, Renamed}

Ok(b) == [kind |-> "ok", body |-> b]

\* What requests.get may do: raise a RequestException, answer with a status
\* other than 200, or answer 200 with a mapping.
Responses ==
    {[kind |-> "exception", body |-> EmptyDict],
     [kind |-> "status", body |-> EmptyDict]}
    \cup {Ok(b) : b \in Snapshots}

\* GET /api/rfid/collaborators: the rows of the table as a mapping by tag
\* (were two rows to hold one tag, the later row would replace the earlier).
get_rfid_data(table) ==
    [t \in {table[i].rfid_tag : i \in DOMAIN table} |->
        LET i == CHOOSE i \in DOMAIN table :
                     /\ table[i].rfid_tag = t
                     /\ \A j \in DOMAIN table : table[j].rfid_tag = t => j <= i
        IN  Collab(table[i].name, table[i].has_access)]

\* The fetches the environment offers: any response, at once or slowly, when
\* the network is flaky; with the network up, an answer at once, which
\* grants or revokes the holder's access; with the network down, a
\* RequestException at once; with app.py serving, its table at once; with
\* the network lost, a RequestException at once or, slowly, a status other
\* than 200, and once it has healed an answer as with the network up.
Fetches(net) ==
    CASE net \in {"up", "healed"} -> {Ok(Granted), Ok(Revoked)} \X {0}
      [] net = "down" -> {<<[kind |-> "exception", body |-> EmptyDict], 0>>}
      [] net = "served" -> {<<Ok(get_rfid_data(collaborators_table)), 0>>}
      [] net = "lost" -> {<<[kind |-> "exception", body |-> EmptyDict], 0>>,
                          <<[kind |-> "status", body |-> EmptyDict], MaxFetchDelay>>}
      [] OTHER -> Responses \X {0, MaxFetchDelay}

\* The fetches offered to the update_cache that run() starts with: the
\* network that is down afterwards answers this one, the network that is
\* lost may have answered it.
StartFetches(net) ==
    CASE net = "down" -> {<<Ok(Granted), 0>>}
      [] net = "lost" -> Fetches(net) \cup {<<Ok(Granted), 0>>}
      [] OTHER -> Fetches(net)

\* What requests.post of an event may do: the server stores it (201), answers
\* with another status, or the call raises a RequestException.
PostResults == {"created", "rejected", "exception"}

\* The outcomes the environment offers to the reader, which does not look at
\* the answer (one with another status is not told apart from a 201): with
\* the network up or app.py serving the event is stored, with the network
\* down the call fails.
Posts(net) ==
    CASE net \in {"up", "served", "healed"} -> {"created"}
      [] net \in {"down", "lost"} -> {"exception"}
      [] OTHER -> {"created", "exception"}

\* The reads of a run: with the network healed, one more than with it lost.
ReadBound(net) ==
    CASE net \in {"flaky", "lost"} -> MaxFlakyReads
      [] net = "healed" -> MaxFlakyReads + 1
      [] net = "served" -> MaxServedReads
      [] OTHER -> MaxReads

\* Time the loop may block in reader.read() before a tag shows up: none,
\* half a second, and a whole refresh interval.
Waits == {0, HalfSecond, Seconds(CACHE_REFRESH_INTERVAL)}

\* ... while the network is lost or has healed.
LiveWaits == {HalfSecond, Seconds(CACHE_REFRESH_INTERVAL)}

\* ... with app.py serving: a refresh interval, and a day.
ServedWaits == {Seconds(CACHE_REFRESH_INTERVAL), Seconds(SecondsPerDay)}

----------------------------------------------------------------------------
(* The reader.  Its functions are operators on the record s of the        *)
(* program's globals: cache, upd (cache_last_update), presence, stats,     *)
(* now (the clock), out (the calls of log_to_api made), ret (what          *)
(* update_cache returned), post (what the POST of the event will meet) and *)
(* logged (what it met).                                                   *)

activate_led(s, duration) == [s EXCEPT !.now = @ + Seconds(duration)]

blink_led(s, times) ==
    [s EXCEPT !.now = @ + times * (HalfSecond + IF times > 1 THEN HalfSecond ELSE 0)]

\* log_to_api that, when the POST fails, takes back the presence entry of
\* the tag
log_to_api_rolls_back(s, rfid_tag, collaborator_name, event_type, access_granted) ==
    [s EXCEPT !.out = Append(@, [rfid_tag |-> rfid_tag,
                                 collaborator_name |-> collaborator_name,
                                 event_type |-> event_type,
                                 access_granted |-> access_granted]),
              !.logged = Some(s.post),
              !.presence = IF s.post = "exception"
                           THEN [x \in (DOMAIN s.presence) \ {rfid_tag} |->
                                    s.presence[x]]
                           ELSE s.presence]

\* The POST is made; its answer is ignored and a RequestException caught.
\* The time it takes is not told apart from the time the loop then waits for
\* the next tag.
log_to_api(s, rfid_tag, collaborator_name, event_type, access_granted) ==
    [s EXCEPT !.out = Append(@, [rfid_tag |-> rfid_tag,
                                 collaborator_name |-> collaborator_name,
                                 event_type |-> event_type,
                                 access_granted |-> access_granted]),
              !.logged = Some(s.post)]

\* update_cache that adds the fetched entries to the cache (dict.update)
\* instead of replacing it
update_cache_merges(s, resp, delay) ==
    IF resp.kind = "ok"
    THEN [s EXCEPT !.cache = [t \in (DOMAIN s.cache) \cup (DOMAIN resp.body) |->
                                 IF t \in DOMAIN resp.body THEN resp.body[t]
                                 ELSE s.cache[t]],
                   !.upd = Some(s.now + delay),
                   !.now = @ + delay, !.ret = Some(TRUE)]
    ELSE [s EXCEPT !.now = @ + delay, !.ret = Some(FALSE)]

\* update_cache that, on success, marks outside the tags the mapping fetched
\* no longer holds
update_cache_reconciles(s, resp, delay) ==
    IF resp.kind = "ok"
    THEN [s EXCEPT !.cache = resp.body, !.upd = Some(s.now + delay),
                   !.now = @ + delay, !.ret = Some(TRUE),
                   !.presence = [x \in DOMAIN s.presence |->
                                    IF x \in DOMAIN resp.body THEN s.presence[x]
                                    ELSE [s.presence[x] EXCEPT !.is_inside = FALSE]]]
    ELSE [s EXCEPT !.now = @ + delay, !.ret = Some(FALSE)]

\* update_cache that stamps the time of a failed fetch too
update_cache_stamps_failure(s, resp, delay) ==
    IF resp.kind = "ok"
    THEN [s EXCEPT !.cache = resp.body, !.upd = Some(s.now + delay),
                   !.now = @ + delay, !.ret = Some(TRUE)]
    ELSE [s EXCEPT !.upd = Some(s.now + delay), !.now = @ + delay,
                   !.ret = Some(FALSE)]

update_cache(s, resp, delay) ==
    IF resp.kind = "ok"
    THEN [s EXCEPT !.cache = resp.body, !.upd = Some(s.now + delay),
                   !.now = @ + delay, !.ret = Some(TRUE)]
    ELSE [s EXCEPT !.now = @ + delay, !.ret = Some(FALSE)]

\* should_refresh_cache that waits for more than the interval
should_refresh_cache_strict(s) ==
    IF s.upd = None THEN TRUE
    ELSE (s.now - s.upd[1]) > Seconds(CACHE_REFRESH_INTERVAL)

\* should_refresh_cache that lets the snapshot age two intervals
should_refresh_cache_lazy(s) ==
    IF s.upd = None THEN TRUE
    ELSE (s.now - s.upd[1]) >= Seconds(2 * CACHE_REFRESH_INTERVAL)

should_refresh_cache(s) ==
    IF s.upd = None THEN TRUE
    ELSE (s.now - s.upd[1]) >= Seconds(CACHE_REFRESH_INTERVAL)

\* The greeting printed tells a first entry ("Bem-vindo") from a return
\* ("Bem-vindo de volta"): first records which one was printed.
handle_entry(s, rfid_tag, name, is_first_entry) ==
    LET s1 == [s EXCEPT !.presence =
                   DictSet(@, rfid_tag, [name |-> name, entry_time |-> s.now,
                                         is_inside |-> TRUE]),
                        !.first = Some(is_first_entry)]
        s2 == activate_led(s1, EntryLedSeconds)
    IN  log_to_api(s2, rfid_tag, name, "entry", TRUE)

\* handle_exit that forgets to mark the tag outside
handle_exit_stays_inside(s, rfid_tag, name) ==
    LET entry_time == s.presence[rfid_tag].entry_time
        duration == s.now - entry_time
        s1 == [s EXCEPT !.stats.time_in_room =
                            DictSet(@, name, DictGet(@, name, 0) + duration),
                        !.duration = Some(duration)]
        s2 == activate_led(s1, ExitLedSeconds)
    IN  log_to_api(s2, rfid_tag, name, "exit", TRUE)

\* handle_exit that removes the tag's entry from the registry
handle_exit_forgets(s, rfid_tag, name) ==
    LET entry_time == s.presence[rfid_tag].entry_time
        duration == s.now - entry_time
        s1 == [s EXCEPT !.stats.time_in_room =
                            DictSet(@, name, DictGet(@, name, 0) + duration),
                        !.presence = [x \in (DOMAIN s.presence) \ {rfid_tag} |->
                                         s.presence[x]],
                        !.duration = Some(duration)]
        s2 == activate_led(s1, ExitLedSeconds)
    IN  log_to_api(s2, rfid_tag, name, "exit", TRUE)

\* handle_exit that keeps the latest stay only as the holder's time in room
handle_exit_overwrites(s, rfid_tag, name) ==
    LET entry_time == s.presence[rfid_tag].entry_time
        duration == s.now - entry_time
        s1 == [s EXCEPT !.stats.time_in_room = DictSet(@, name, duration),
                        !.presence[rfid_tag].is_inside = FALSE,
                        !.duration = Some(duration)]
        s2 == activate_led(s1, ExitLedSeconds)
    IN  log_to_api(s2, rfid_tag, name, "exit", TRUE)

\* handle_exit that does not add the stay to the holder's time in room
handle_exit_untimed(s, rfid_tag, name) ==
    LET entry_time == s.presence[rfid_tag].entry_time
        duration == s.now - entry_time
        s1 == [s EXCEPT !.stats.time_in_room = DictSet(@, name, DictGet(@, name, 0)),
                        !.presence[rfid_tag].is_inside = FALSE,
                        !.duration = Some(duration)]
        s2 == activate_led(s1, ExitLedSeconds)
    IN  log_to_api(s2, rfid_tag, name, "exit", TRUE)

\* handle_exit that credits the stay to the name the registry holds
handle_exit_entry_name(s, rfid_tag, name) ==
    LET entry_time == s.presence[rfid_tag].entry_time
        duration == s.now - entry_time
        held == s.presence[rfid_tag].name
        s1 == [s EXCEPT !.stats.time_in_room =
                            DictSet(@, held, DictGet(@, held, 0) + duration),
                        !.presence[rfid_tag].is_inside = FALSE,
                        !.duration = Some(duration)]
        s2 == activate_led(s1, ExitLedSeconds)
    IN  log_to_api(s2, rfid_tag, name, "exit", TRUE)

handle_exit(s, rfid_tag, name) ==
    LET entry_time == s.presence[rfid_tag].entry_time
        exit_time == s.now
        duration == exit_time - entry_time
        base == IF name \in DOMAIN s.stats.time_in_room
                THEN s.stats.time_in_room[name] ELSE 0
        s1 == [s EXCEPT !.stats.time_in_room = DictSet(@, name, base + duration),
                        !.presence[rfid_tag].is_inside = FALSE,
                        !.duration = Some(duration)]
        s2 == activate_led(s1, ExitLedSeconds)
    IN  log_to_api(s2, rfid_tag, name, "exit", TRUE)

\* handle_denied_access that counts a holder's first attempt only
handle_denied_access_once(s, rfid_tag, name) ==
    LET s1 == IF name \in DOMAIN s.stats.access_attempts THEN s
              ELSE [s EXCEPT !.stats.access_attempts = DictSet(@, name, 1)]
        s2 == activate_led(s1, DeniedLedSeconds)
    IN  log_to_api(s2, rfid_tag, name, "denied", FALSE)

\* handle_denied_access that marks the holder outside
handle_denied_access_evicts(s, rfid_tag, name) ==
    LET base == IF name \in DOMAIN s.stats.access_attempts
                THEN s.stats.access_attempts[name] ELSE 0
        s1 == [s EXCEPT !.stats.access_attempts = DictSet(@, name, base + 1),
                        !.presence = [x \in DOMAIN s.presence |->
                                         IF x = rfid_tag
                                         THEN [s.presence[x] EXCEPT !.is_inside = FALSE]
                                         ELSE s.presence[x]]]
        s2 == activate_led(s1, DeniedLedSeconds)
    IN  log_to_api(s2, rfid_tag, name, "denied", FALSE)

\* handle_denied_access that logs the attempt as granted
handle_denied_access_granted(s, rfid_tag, name) ==
    LET base == IF name \in DOMAIN s.stats.access_attempts
                THEN s.stats.access_attempts[name] ELSE 0
        s1 == [s EXCEPT !.stats.access_attempts = DictSet(@, name, base + 1)]
        s2 == activate_led(s1, DeniedLedSeconds)
    IN  log_to_api(s2, rfid_tag, name, "denied", TRUE)

handle_denied_access(s, rfid_tag, name) ==
    LET base == IF name \in DOMAIN s.stats.access_attempts
                THEN s.stats.access_attempts[name] ELSE 0
        s1 == [s EXCEPT !.stats.access_attempts = DictSet(@, name, base + 1)]
        s2 == activate_led(s1, DeniedLedSeconds)
    IN  log_to_api(s2, rfid_tag, name, "denied", FALSE)

\* handle_unknown_tag that does not count the attempt
handle_unknown_tag_uncounted(s, rfid_tag) ==
    log_to_api(blink_led(s, UnknownBlinkTimes), rfid_tag, UnknownName,
               "unknown", FALSE)

handle_unknown_tag(s, rfid_tag) ==
    LET s1 == [s EXCEPT !.stats.invasion_attempts = @ + 1]
        s2 == blink_led(s1, UnknownBlinkTimes)
    IN  log_to_api(s2, rfid_tag, UnknownName, "unknown", FALSE)

\* presence_control.get(rfid_tag, {}).get('is_inside', False)
IsInside(presence, rfid_tag) ==
    IF rfid_tag \in DOMAIN presence THEN presence[rfid_tag].is_inside ELSE FALSE

\* The people in the room, as print_session_report and the simulator's
\* "status" command list them: the entries of the registry with is_inside.
current_occupants(presence) ==
    {tag \in DOMAIN presence : presence[tag].is_inside}

\* process_rfid_tag that looks at the presence before the authorization
process_rfid_tag_presence_first(s, rfid_tag, resp, delay) ==
    LET s1 == IF should_refresh_cache(s) THEN update_cache(s, resp, delay) ELSE s
    IN  IF rfid_tag \notin DOMAIN s1.cache
        THEN handle_unknown_tag(s1, rfid_tag)
        ELSE LET name == s1.cache[rfid_tag].name
             IN  IF IsInside(s1.presence, rfid_tag)
                 THEN handle_exit(s1, rfid_tag, name)
                 ELSE IF ~s1.cache[rfid_tag].has_access
                      THEN handle_denied_access(s1, rfid_tag, name)
                      ELSE handle_entry(s1, rfid_tag, name,
                                        rfid_tag \notin DOMAIN s1.presence)

\* process_rfid_tag that gives up on a read whose refresh failed
process_rfid_tag_needs_refresh(s, rfid_tag, resp, delay) ==
    LET s1 == IF should_refresh_cache(s) THEN update_cache(s, resp, delay) ELSE s
    IN  IF s1.ret = Some(FALSE) THEN s1
        ELSE IF rfid_tag \notin DOMAIN s1.cache
        THEN handle_unknown_tag(s1, rfid_tag)
        ELSE LET name == s1.cache[rfid_tag].name
             IN  IF ~s1.cache[rfid_tag].has_access
                 THEN handle_denied_access(s1, rfid_tag, name)
                 ELSE IF IsInside(s1.presence, rfid_tag)
                      THEN handle_exit(s1, rfid_tag, name)
                      ELSE handle_entry(s1, rfid_tag, name,
                                        rfid_tag \notin DOMAIN s1.presence)

\* refresh_if_needed that fetches only while the cache is empty
refresh_if_needed_only_empty(s, resp, delay) ==
    IF should_refresh_cache(s) /\ s.cache = EmptyDict
    THEN update_cache(s, resp, delay) ELSE s

\* process_rfid_tag, its first statement: the cache is refreshed if need be.
refresh_if_needed(s, resp, delay) ==
    IF should_refresh_cache(s) THEN update_cache(s, resp, delay) ELSE s

\* classify_tag that takes the exit path for every tag the registry knows,
\* inside or not
classify_tag_exit_known(s1, rfid_tag) ==
    IF rfid_tag \notin DOMAIN s1.cache
    THEN handle_unknown_tag(s1, rfid_tag)
    ELSE LET collaborator == s1.cache[rfid_tag]
             name == collaborator.name
             has_access == collaborator.has_access
         IN  IF ~has_access
             THEN handle_denied_access(s1, rfid_tag, name)
             ELSE IF rfid_tag \in DOMAIN s1.presence
                  THEN handle_exit(s1, rfid_tag, name)
                  ELSE handle_entry(s1, rfid_tag, name,
                                    rfid_tag \notin DOMAIN s1.presence)

\* classify_tag that locks out a holder who has been denied before
classify_tag_lockout(s1, rfid_tag) ==
    IF rfid_tag \notin DOMAIN s1.cache
    THEN handle_unknown_tag(s1, rfid_tag)
    ELSE LET collaborator == s1.cache[rfid_tag]
             name == collaborator.name
             has_access == collaborator.has_access
         IN  IF ~has_access \/ DictGet(s1.stats.access_attempts, name, 0) > 0
             THEN handle_denied_access(s1, rfid_tag, name)
             ELSE IF IsInside(s1.presence, rfid_tag)
                  THEN handle_exit(s1, rfid_tag, name)
                  ELSE handle_entry(s1, rfid_tag, name,
                                    rfid_tag \notin DOMAIN s1.presence)

\* process_rfid_tag, the statements after the refresh.
classify_tag(s1, rfid_tag) ==
    IF rfid_tag \notin DOMAIN s1.cache
    THEN handle_unknown_tag(s1, rfid_tag)
    ELSE LET collaborator == s1.cache[rfid_tag]
             name == collaborator.name
             has_access == collaborator.has_access
         IN  IF ~has_access
             THEN handle_denied_access(s1, rfid_tag, name)
             ELSE IF IsInside(s1.presence, rfid_tag)
                  THEN handle_exit(s1, rfid_tag, name)
                  ELSE handle_entry(s1, rfid_tag, name,
                                    rfid_tag \notin DOMAIN s1.presence)

process_rfid_tag(s, rfid_tag, resp, delay) ==
    classify_tag(refresh_if_needed(s, resp, delay), rfid_tag)

\* One iteration of run()'s loop for a tag read at s.now: the debounce
\* (continue: the read is skipped, without the sleep), else the tag is
\* processed and the loop sleeps half a second.
\* run_iteration that records the read before the debounce test looks at it
run_iteration_records_first(s, rfid_tag, resp, delay) ==
    LET current_time == s.now
        s1 == [s EXCEPT !.last_tag = Some(rfid_tag),
                        !.last_read_time = Some(current_time)]
    IN  IF /\ s.last_tag = Some(rfid_tag)
           /\ Truthy(s.last_read_time)
           /\ (current_time - s.last_read_time[1]) < Seconds(DEBOUNCE_TIME)
        THEN [s1 EXCEPT !.allowed = FALSE]
        ELSE [process_rfid_tag(s1, rfid_tag, resp, delay)
                 EXCEPT !.now = @ + HalfSecond, !.allowed = TRUE]

\* run_iteration whose debounce does not look at the tag
run_iteration_any_tag(s, rfid_tag, resp, delay) ==
    LET current_time == s.now
    IN  IF /\ Truthy(s.last_read_time)
           /\ (current_time - s.last_read_time[1]) < Seconds(DEBOUNCE_TIME)
        THEN [s EXCEPT !.allowed = FALSE]
        ELSE LET s1 == [s EXCEPT !.last_tag = Some(rfid_tag),
                                 !.last_read_time = Some(current_time)]
                 s2 == process_rfid_tag(s1, rfid_tag, resp, delay)
             IN  [s2 EXCEPT !.now = @ + HalfSecond, !.allowed = TRUE]

\* run_iteration that refreshes the cache, if need be, before the debounce
run_iteration_refresh_first(s, rfid_tag, resp, delay) ==
    LET current_time == s.now
        s0 == refresh_if_needed(s, resp, delay)
    IN  IF /\ s.last_tag = Some(rfid_tag)
           /\ Truthy(s.last_read_time)
           /\ (current_time - s.last_read_time[1]) < Seconds(DEBOUNCE_TIME)
        THEN [s0 EXCEPT !.allowed = FALSE]
        ELSE LET s1 == [s0 EXCEPT !.last_tag = Some(rfid_tag),
                                  !.last_read_time = Some(current_time)]
                 s2 == classify_tag(s1, rfid_tag)
             IN  [s2 EXCEPT !.now = @ + HalfSecond, !.allowed = TRUE]

\* run_iteration whose skipped read restarts the debounce window
run_iteration_restarts(s, rfid_tag, resp, delay) ==
    LET current_time == s.now
    IN  IF /\ s.last_tag = Some(rfid_tag)
           /\ Truthy(s.last_read_time)
           /\ (current_time - s.last_read_time[1]) < Seconds(DEBOUNCE_TIME)
        THEN [s EXCEPT !.allowed = FALSE, !.last_read_time = Some(current_time)]
        ELSE LET s1 == [s EXCEPT !.last_tag = Some(rfid_tag),
                                 !.last_read_time = Some(current_time)]
                 s2 == process_rfid_tag(s1, rfid_tag, resp, delay)
             IN  [s2 EXCEPT !.now = @ + HalfSecond, !.allowed = TRUE]

run_iteration(s, rfid_tag, resp, delay) ==
    LET current_time == s.now
    IN  IF /\ s.last_tag = Some(rfid_tag)
           /\ Truthy(s.last_read_time)
           /\ (current_time - s.last_read_time[1]) < Seconds(DEBOUNCE_TIME)
        THEN [s EXCEPT !.allowed = FALSE]
        ELSE LET s1 == [s EXCEPT !.last_tag = Some(rfid_tag),
                                 !.last_read_time = Some(current_time)]
                 s2 == process_rfid_tag(s1, rfid_tag, resp, delay)
             IN  [s2 EXCEPT !.now = @ + HalfSecond, !.allowed = TRUE]

\* The program's globals and run()'s locals as a record, at time now.
Globals(now) ==
    [cache |-> collaborators_cache, upd |-> cache_last_update,
     presence |-> presence_control, stats |-> session_stats,
     last_tag |-> last_tag, last_read_time |-> last_read_time,
     now |-> now, out |-> <<>>, ret |-> None, duration |-> None,
     allowed |-> FALSE, post |-> "created", logged |-> None, first |-> None]

\* last: the tag read and the time of the read, whether it passed the
\* debounce, what update_cache returned (None: not called), the mapping
\* fetched and the time the answer came (when one came), the calls of
\* log_to_api made, what the POST met and the duration handle_exit computed;
\* the time of the tag's latest read before this one that passed the
\* debounce, and whether the iteration before this one skipped a read of
\* this tag; and, for an Entry, whether it was greeted as a first entry.
NoRead ==
    [tag |-> "", at |-> 0, allowed |-> FALSE, ret |-> None, body |-> None,
     fetch_done |-> None, out |-> <<>>, logged |-> None, duration |-> None,
     since |-> None, after_skip |-> FALSE, first |-> None]

\* The history moves after an event of one of the kinds for tag rfid_tag: an
\* Entry or an Exit is its latest move, and counts +1 or -1.
Moved(m, rfid_tag, kinds) ==
    LET old == DictGet(m, rfid_tag, [latest |-> "none", net |-> 0])
    IN  IF "entry" \in kinds
        THEN DictSet(m, rfid_tag, [latest |-> "entry", net |-> old.net + 1])
        ELSE IF "exit" \in kinds
        THEN DictSet(m, rfid_tag, [latest |-> "exit", net |-> old.net - 1])
        ELSE m

\* The tally after an iteration that made the calls out of log_to_api, its
\* Exit (if any) of the duration given.
Tallied(c, out, duration) ==
    LET n(kind) == Cardinality({i \in DOMAIN out : out[i].event_type = kind})
    IN  [unknown |-> c.unknown + n("unknown"),
         denied |-> c.denied + n("denied"),
         exit_time |-> c.exit_time
                          + IF n("exit") > 0 /\ duration # None
                            THEN duration[1] ELSE 0]

\* cur before the first read: the tag read and the time of the read,
\* whether it passed the debounce, the globals as the read found them, the
\* fetch its refresh met and the calls of log_to_api made for it.
NoCur ==
    [tag |-> "", at |-> 0, allowed |-> FALSE, start |-> <<>>,
     resp |-> [kind |-> "exception", body |-> EmptyDict], delay |-> 0,
     out |-> <<>>]

\* What a fetch made at time at, answered by resp after delay, leaves in last.
Fetched(l, resp, at, delay) ==
    [l EXCEPT !.body = IF resp.kind = "ok" THEN Some(resp.body) ELSE None,
              !.fetch_done = Some(at + delay)]

----------------------------------------------------------------------------
(* The server's store (app.py): the tables collaborators and access_logs.  *)
(* A request for a collaborator is an operator from the table to the table *)
(* it leaves and the status it answers with; the requests are those of an  *)
(* administrator whose token require_auth accepts.  Absent fields of a     *)
(* request's JSON are None.                                                *)

Row(n, t, a) == [name |-> n, rfid_tag |-> t, has_access |-> a]

\* init_db on a new database: the example collaborators.
init_db ==
    [id \in 1..4 |->
        CASE id = 1 -> Row("Joao Silva", "RFID001", TRUE)
          [] id = 2 -> Row("Maria Santos", "RFID002", TRUE)
          [] id = 3 -> Row("Pedro Oliveira", "RFID003", FALSE)
          [] id = 4 -> Row("Ana Costa", "RFID004", TRUE)]

\* The tag is held by a row other than row id: UNIQUE(rfid_tag) fails.
IntegrityError(table, id, rfid_tag) ==
    \E j \in (DOMAIN table) \ {id} : table[j].rfid_tag = rfid_tag

\* create_collaborator without the UNIQUE constraint on rfid_tag
create_collaborator_no_unique(table, seq, data) ==
    IF data.name = None \/ data.rfid_tag = None
    THEN [table |-> table, seq |-> seq, status |-> 400]
    ELSE [table |-> DictSet(table, seq + 1,
                            Row(data.name[1], data.rfid_tag[1],
                                IF data.has_access = None THEN TRUE
                                ELSE data.has_access[1])),
          seq |-> seq + 1, status |-> 201]

\* POST /api/collaborators
create_collaborator(table, seq, data) ==
    LET name == data.name
        rfid_tag == data.rfid_tag
        has_access == IF data.has_access = None THEN TRUE ELSE data.has_access[1]
    IN  IF name = None \/ rfid_tag = None
        THEN [table |-> table, seq |-> seq, status |-> 400]
        ELSE IF IntegrityError(table, 0, rfid_tag[1])
             THEN [table |-> table, seq |-> seq, status |-> 400]
             ELSE [table |-> DictSet(table, seq + 1,
                                     Row(name[1], rfid_tag[1], has_access)),
                   seq |-> seq + 1, status |-> 201]

\* PUT /api/collaborators/<id>
update_collaborator(table, id, data) ==
    LET name == data.name
        rfid_tag == data.rfid_tag
        has_access == data.has_access
        updates == name # None \/ rfid_tag # None \/ has_access # None
    IN  IF ~updates
        THEN [table |-> table, status |-> 400]
        ELSE IF id \notin DOMAIN table
             THEN [table |-> table, status |-> 200]
             ELSE IF rfid_tag # None /\ IntegrityError(table, id, rfid_tag[1])
                  THEN [table |-> table, status |-> 400]
                  ELSE [table |->
                           [table EXCEPT ![id] =
                               Row(IF name # None THEN name[1] ELSE @.name,
                                   IF rfid_tag # None THEN rfid_tag[1]
                                   ELSE @.rfid_tag,
                                   IF has_access # None THEN has_access[1]
                                   ELSE @.has_access)],
                        status |-> 200]

\* DELETE /api/collaborators/<id>
delete_collaborator(table, id) ==
    [table |-> [i \in (DOMAIN table) \ {id} |-> table[i]], status |-> 200]

\* CURRENT_TIMESTAMP, in seconds, when the clock shows now.
ServerTime(now) == now \div TicksPerSecond

\* The rows the UPDATE of log_access may choose for an exit of the tag: those
\* without exit_timestamp, the latest timestamp first, one row (any of them
\* when several share the latest timestamp).
LatestOpen(logs, rfid_tag) ==
    LET open == {i \in DOMAIN logs : /\ logs[i].rfid_tag = rfid_tag
                                     /\ logs[i].exit_timestamp = None}
    IN  {i \in open : \A j \in open : logs[j].timestamp <= logs[i].timestamp}

\* POST /api/logs/access received at now: the tables it may leave.
log_access(logs, data, now) ==
    IF data.event_type = "exit"
    THEN IF LatestOpen(logs, data.rfid_tag) = {}
         THEN {logs}
         ELSE {[logs EXCEPT ![i].exit_timestamp = Some(ServerTime(now))] :
                  i \in LatestOpen(logs, data.rfid_tag)}
    ELSE {Append(logs, [rfid_tag |-> data.rfid_tag,
                        collaborator_name |-> data.collaborator_name,
                        event_type |-> data.event_type,
                        access_granted |-> data.access_granted,
                        timestamp |-> ServerTime(now),
                        exit_timestamp |-> None])}

\* The tables the POSTs of an iteration, made at now, may leave (an
\* iteration makes one POST at most).
Delivered(logs, out, now) ==
    IF out = <<>> THEN {logs} ELSE log_access(logs, out[1], now)

\* What the endpoint received from an iteration: each event, with the
\* server's time.
Received(out, now) ==
    [i \in DOMAIN out |-> [rfid_tag |-> out[i].rfid_tag,
                           event_type |-> out[i].event_type,
                           at |-> ServerTime(now)]]

\* The day of a timestamp (analytics.py compares timestamp.dt.date).
Date(ts) == ts \div SecondsPerDay

\* analytics.py, get_entries_exits_by_date, on the rows load_data read.
get_entries_exits_by_date(logs, target_date) ==
    LET day_logs == {i \in DOMAIN logs : Date(logs[i].timestamp) = target_date}
        of(kind) == Cardinality({i \in day_logs : logs[i].event_type = kind})
    IN  [date |-> target_date,
         entries |-> of("entry"),
         exits |-> of("exit"),
         denied_access |-> of("denied"),
         invasion_attempts |-> of("unknown"),
         total_events |-> Cardinality(day_logs)]

NoRequest == [op |-> "none", id |-> 0, data |-> <<>>, status |-> 0]

\* The database after init_db, no request made yet, nobody logged in.
DatabaseInit ==
    /\ collaborators_table = init_db
    /\ collaborators_seq = Cardinality(DOMAIN init_db)
    /\ access_logs = <<>>
    /\ srv_last = NoRequest
    /\ submitted = <<>>
    /\ admin_ops = 0
    /\ auth_tokens = EmptyDict
    /\ srv_auth = None

\* ... on a host whose clock shows UTC.
ServerInit ==
    /\ DatabaseInit
    /\ utc_offset = 0

\* The requests an administrator makes.
Request(n, t, a) == [name |-> n, rfid_tag |-> t, has_access |-> a]

\* A new collaborator with a tag that is registered, and with one that is
\* not.
CreateRequests ==
    {Request(Some("Ana Costa"), Some("RFID001"), None),
     Request(Some("Ana Costa"), Some("RFID999"), Some(TRUE))}

\* The first id given after init_db.
NewId == Cardinality(DOMAIN init_db) + 1

\* For the holder of RFID001: access revoked, access granted, another name,
\* the tag of another collaborator, and nothing at all; for the collaborator
\* created after init_db (if any): the tag RFID001.
UpdateRequests ==
    {<<1, Request(None, None, Some(FALSE))>>,
     <<1, Request(None, None, Some(TRUE))>>,
     <<1, Request(Some("Ana Costa"), None, None)>>,
     <<1, Request(None, Some("RFID002"), None)>>,
     <<1, Request(None, None, None)>>,
     <<NewId, Request(None, Some("RFID001"), None)>>}

\* The holder of RFID001 is removed.
DeleteRequests == {1}

CreateCollaborator(data) ==
    /\ network = "served"
    /\ admin_ops < MaxAdminOps
    /\ LET r == create_collaborator(collaborators_table, collaborators_seq, data)
       IN  /\ collaborators_table' = r.table
           /\ collaborators_seq' = r.seq
           /\ srv_last' = [op |-> "create", id |-> 0, data |-> data,
                           status |-> r.status]
    /\ admin_ops' = admin_ops + 1
    /\ UNCHANGED <<network, reader_vars, sim_vars, log_vars, auth_vars>>

UpdateCollaborator(id, data) ==
    /\ network = "served"
    /\ admin_ops < MaxAdminOps
    /\ LET r == update_collaborator(collaborators_table, id, data)
       IN  /\ collaborators_table' = r.table
           /\ srv_last' = [op |-> "update", id |-> id, data |-> data,
                           status |-> r.status]
    /\ admin_ops' = admin_ops + 1
    /\ UNCHANGED <<network, reader_vars, sim_vars, log_vars, auth_vars,
                   collaborators_seq>>

DeleteCollaborator(id) ==
    /\ network = "served"
    /\ admin_ops < MaxAdminOps
    /\ LET r == delete_collaborator(collaborators_table, id)
       IN  /\ collaborators_table' = r.table
           /\ srv_last' = [op |-> "delete", id |-> id, data |-> <<>>,
                           status |-> r.status]
    /\ admin_ops' = admin_ops + 1
    /\ UNCHANGED <<network, reader_vars, sim_vars, log_vars, auth_vars,
                   collaborators_seq>>

----------------------------------------------------------------------------
(* app.py, authentication.  A token is a number; an Authorization header is *)
(* None (no header) or Some(<<scheme, token>>), "Bearer 1" being            *)
(* Some(<<"Bearer", 1>>).  Times are ticks; the host's local time is UTC    *)
(* plus utc_offset.                                                         *)

\* A token lasts timedelta(hours=8).
TokenHours == 8
SecondsPerHour == 3600

Hours(n) == Seconds(n * SecondsPerHour)

\* datetime.now() on the host when the clock shows now.
LocalTime(now, offset) == now + offset

\* sha256(password).hexdigest(): one digest per password.
hash_password(password) == <<"sha256", password>>

\* Table users after init_db: the default administrator.
users ==
    <<[id |-> 1, username |-> "admin",
       password_hash |-> hash_password("admin123")]>>

\* The token secrets.token_urlsafe(32) gives: one not given before.
NewToken(tokens) == Cardinality(DOMAIN tokens) + 1

\* POST /api/auth/login: the table auth_tokens it leaves, its status and the
\* token it answers with.  expires_at is the host's local time plus 8 hours.
login(tokens, data, now, offset) ==
    LET username == data.username
        password == data.password
    IN  IF username = None \/ password = None
        THEN [tokens |-> tokens, status |-> 400, token |-> None]
        ELSE LET user == {i \in DOMAIN users :
                             /\ users[i].username = username[1]
                             /\ users[i].password_hash = hash_password(password[1])}
             IN  IF user = {}
                 THEN [tokens |-> tokens, status |-> 401, token |-> None]
                 ELSE LET token == NewToken(tokens)
                          expires_at == LocalTime(now, offset) + Hours(TokenHours)
                      IN  [tokens |-> DictSet(tokens, token,
                                        [user_id |-> users[CHOOSE i \in user : TRUE].id,
                                         expires_at |-> expires_at]),
                           status |-> 200, token |-> Some(token)]

\* expires_at > datetime('now'): SQLite compares the text Python stored, a
\* local time with its fraction of a second ('2026-11-06 18:00:00.500000'),
\* with the text of the UTC time cut to the second ('2026-11-06 18:00:00').
\* Of two texts alike up to the second, the one with a fraction is greater.
Later(expires_at, now) ==
    \/ ServerTime(expires_at) > ServerTime(now)
    \/ /\ ServerTime(expires_at) = ServerTime(now)
       /\ expires_at % TicksPerSecond # 0

\* verify_token: the user_id of the row of the token not yet expired, or None.
verify_token(tokens, token, now) ==
    IF token \in DOMAIN tokens /\ Later(tokens[token].expires_at, now)
    THEN Some(tokens[token].user_id) ELSE None

\* require_auth: whether the wrapper calls the handler (it answers 401
\* otherwise).
require_auth(tokens, authorization, now) ==
    IF authorization = None \/ authorization[1][1] # "Bearer"
    THEN FALSE
    ELSE Truthy(verify_token(tokens, authorization[1][2], now))

\* The answer of a handler wrapped in require_auth: 401 and the table as it
\* was, or what the handler does.
Wrapped(authorization, table, seq, answer) ==
    IF require_auth(auth_tokens, authorization, clock)
    THEN answer ELSE [table |-> table, seq |-> seq, status |-> 401]

\* The headers requests come with: none, another scheme, a token nobody was
\* given, and the first token given.
Headers ==
    {None, Some(<<"Basic", 1>>), Some(<<"Bearer", 0>>), Some(<<"Bearer", 1>>)}

\* The credentials tried: the administrator's, a wrong password, none.
Credentials ==
    {[username |-> Some("admin"), password |-> Some("admin123")],
     [username |-> Some("admin"), password |-> Some("admin")],
     [username |-> None, password |-> None]}

\* The zones of the hosts: three hours behind UTC, UTC, two hours ahead.
UtcOffsets == {0 - Hours(3), 0, Hours(2)}

\* Time passes three hours at a time, MaxElapses times at most.
ElapseStep == Hours(3)

\* An event posted to /api/logs/access.
LogRequests ==
    {[rfid_tag |-> "RFID001", collaborator_name |-> "Joao Silva",
      event_type |-> "entry", access_granted |-> TRUE]}

\* A request made of app.py directly: what it leaves in the tables and in
\* the history.
Answered(op, authorization, id, data, r) ==
    /\ network = "served"
    /\ pc = "init"
    /\ admin_ops < MaxAdminOps
    /\ collaborators_table' = r.table
    /\ collaborators_seq' = r.seq
    /\ srv_last' = [op |-> op, id |-> id, data |-> data, status |-> r.status]
    /\ srv_auth' = authorization
    /\ admin_ops' = admin_ops + 1
    /\ UNCHANGED <<network, reader_vars, sim_vars, utc_offset>>

Login(data) ==
    /\ \E r \in {login(auth_tokens, data, clock, utc_offset)} :
          /\ auth_tokens' = r.tokens
          /\ Answered("login", None, 0, data,
                      [table |-> collaborators_table, seq |-> collaborators_seq,
                       status |-> r.status])
    /\ UNCHANGED log_vars

\* GET /api/collaborators
RequestGetCollaborators(authorization) ==
    /\ Answered("list", authorization, 0, <<>>,
                Wrapped(authorization, collaborators_table, collaborators_seq,
                        [table |-> collaborators_table,
                         seq |-> collaborators_seq, status |-> 200]))
    /\ UNCHANGED <<auth_tokens, log_vars>>

\* POST /api/collaborators
RequestCreateCollaborator(authorization, data) ==
    /\ Answered("create", authorization, 0, data,
                Wrapped(authorization, collaborators_table, collaborators_seq,
                        create_collaborator(collaborators_table,
                                            collaborators_seq, data)))
    /\ UNCHANGED <<auth_tokens, log_vars>>

\* PUT /api/collaborators/<id>
RequestUpdateCollaborator(authorization, id, data) ==
    /\ Answered("update", authorization, id, data,
                Wrapped(authorization, collaborators_table, collaborators_seq,
                        LET r == update_collaborator(collaborators_table, id, data)
                        IN  [table |-> r.table, seq |-> collaborators_seq,
                             status |-> r.status]))
    /\ UNCHANGED <<auth_tokens, log_vars>>

\* DELETE /api/collaborators/<id>
RequestDeleteCollaborator(authorization, id) ==
    /\ Answered("delete", authorization, id, <<>>,
                Wrapped(authorization, collaborators_table, collaborators_seq,
                        LET r == delete_collaborator(collaborators_table, id)
                        IN  [table |-> r.table, seq |-> collaborators_seq,
                             status |-> r.status]))
    /\ UNCHANGED <<auth_tokens, log_vars>>

\* GET /api/logs
RequestGetLogs(authorization) ==
    /\ Answered("logs", authorization, 0, <<>>,
                Wrapped(authorization, collaborators_table, collaborators_seq,
                        [table |-> collaborators_table,
                         seq |-> collaborators_seq, status |-> 200]))
    /\ UNCHANGED <<auth_tokens, log_vars>>

\* GET /api/rfid/collaborators: not wrapped.
RequestGetRfidData(authorization) ==
    /\ Answered("snapshot", authorization, 0,
                get_rfid_data(collaborators_table),
                [table |-> collaborators_table, seq |-> collaborators_seq,
                 status |-> 200])
    /\ UNCHANGED <<auth_tokens, log_vars>>

\* POST /api/logs/access: not wrapped.
RequestLogAccess(authorization, data) ==
    /\ Answered("log", authorization, 0, data,
                [table |-> collaborators_table, seq |-> collaborators_seq,
                 status |-> 201])
    /\ access_logs' \in log_access(access_logs, data, clock)
    /\ submitted' = submitted \o Received(<<data>>, clock)
    /\ UNCHANGED auth_tokens

\* Time passes on the host.
Elapse(d) ==
    /\ network = "served"
    /\ pc = "init"
    /\ clock + d <= StartTime + MaxElapses * d
    /\ clock' = clock + d
    /\ UNCHANGED <<pc, reads, collaborators_cache, cache_last_update,
                   presence_control, session_stats, last_tag, last_read_time,
                   last, prev_event, last_allowed, entry_read_at, ever_fetched,
                   moves, tally, step, cur, done>>
    /\ UNCHANGED <<network, sim_vars, server_vars>>

----------------------------------------------------------------------------
(* Actions of the reader *)

ReaderInit ==
    /\ pc = "init"
    /\ clock = StartTime
    /\ reads = 0
    /\ collaborators_cache = EmptyDict
    /\ cache_last_update = None
    /\ presence_control = EmptyDict
    /\ session_stats = [access_attempts |-> EmptyDict, invasion_attempts |-> 0,
                        time_in_room |-> EmptyDict]
    /\ last_tag = None
    /\ last_read_time = None
    /\ last = NoRead
    /\ prev_event = EmptyDict
    /\ last_allowed = EmptyDict
    /\ entry_read_at = EmptyDict
    /\ ever_fetched = {}
    /\ moves = EmptyDict
    /\ tally = [unknown |-> 0, denied |-> 0, exit_time |-> 0]
    /\ step = "read"
    /\ cur = NoCur
    /\ done = 0

\* run(), up to its loop: the first update_cache.
Startup(resp, delay) ==
    /\ pc = "init"
    /\ sim_pc = "init"
    /\ LET s == update_cache(Globals(clock), resp, delay)
       IN  /\ collaborators_cache' = s.cache
           /\ cache_last_update' = s.upd
           /\ clock' = s.now
           /\ last' = Fetched([NoRead EXCEPT !.at = clock, !.ret = s.ret],
                              resp, clock, delay)
           /\ ever_fetched' = IF resp.kind = "ok"
                              THEN ever_fetched \cup DOMAIN resp.body
                              ELSE ever_fetched
    /\ pc' = "running"
    /\ UNCHANGED <<reads, presence_control, session_stats, last_tag,
                   last_read_time, prev_event, last_allowed, entry_read_at>>
    /\ UNCHANGED <<moves, tally, step, cur, done>>
    /\ UNCHANGED <<network, sim_vars, server_vars>>

\* One iteration of run()'s loop: a tag shows up after wait; a fetch made
\* while it is processed is answered by resp after delay, and the POST of
\* its event meets post.  The POST is the handler's last statement, made
\* half a second (the loop's sleep) before the iteration ends; with app.py
\* serving, log_access stores the event.
ReadTag(rfid_tag, wait, resp, delay, post) ==
    /\ pc = "running"
    /\ reads < ReadBound(network)
    /\ \E s \in {run_iteration([Globals(clock + wait) EXCEPT !.post = post],
                               rfid_tag, resp, delay)} :
       LET current_time == clock + wait
           fetch == s.ret # None
           kinds == {s.out[i].event_type : i \in DOMAIN s.out}
           l == [tag |-> rfid_tag, at |-> current_time, allowed |-> s.allowed,
                 ret |-> s.ret, body |-> None, fetch_done |-> None,
                 out |-> s.out, logged |-> s.logged, duration |-> s.duration,
                 since |-> IF rfid_tag \in DOMAIN last_allowed
                           THEN Some(last_allowed[rfid_tag]) ELSE None,
                 after_skip |-> (reads > 0 /\ ~last.allowed
                                 /\ last.tag = rfid_tag),
                 first |-> s.first]
       IN  /\ collaborators_cache' = s.cache
           /\ cache_last_update' = s.upd
           /\ presence_control' = s.presence
           /\ session_stats' = s.stats
           /\ last_tag' = s.last_tag
           /\ last_read_time' = s.last_read_time
           /\ clock' = s.now
           /\ last' = IF fetch THEN Fetched(l, resp, current_time, delay) ELSE l
           /\ prev_event' = IF Len(s.out) > 0
                            THEN DictSet(prev_event, rfid_tag,
                                         s.out[Len(s.out)].event_type)
                            ELSE prev_event
           /\ last_allowed' = IF s.allowed
                              THEN DictSet(last_allowed, rfid_tag, current_time)
                              ELSE last_allowed
           /\ entry_read_at' = IF "entry" \in kinds
                               THEN DictSet(entry_read_at, rfid_tag, current_time)
                               ELSE entry_read_at
           /\ ever_fetched' = IF fetch /\ resp.kind = "ok"
                              THEN ever_fetched \cup DOMAIN resp.body
                              ELSE ever_fetched
           /\ moves' = Moved(moves, rfid_tag, kinds)
           /\ tally' = Tallied(tally, s.out, s.duration)
           /\ IF network = "served" /\ s.logged = Some("created")
              THEN /\ access_logs' \in Delivered(access_logs, s.out, s.now - HalfSecond)
                   /\ submitted' = submitted \o Received(s.out, s.now - HalfSecond)
              ELSE UNCHANGED log_vars
    /\ reads' = reads + 1
    /\ pc' = pc
    /\ UNCHANGED <<step, cur, done>>
    /\ UNCHANGED <<network, sim_vars, store_vars, auth_vars>>

\* A read that finds the cache fresh makes no fetch.
NoFetch == <<[kind |-> "exception", body |-> EmptyDict], 0>>

\* The fetches an iteration may meet: those the environment offers; one
\* that makes no fetch is told once, not once per fetch it did not make.
FetchesFor(rfid_tag, wait) ==
    IF run_iteration(Globals(clock + wait), rfid_tag, NoFetch[1], NoFetch[2]).ret # None
    THEN Fetches(network) ELSE {NoFetch}

\* The outcomes the POST of an iteration may meet; an iteration that makes
\* no POST is told once.
PostsFor(rfid_tag, wait) ==
    IF run_iteration(Globals(clock + wait), rfid_tag, NoFetch[1], NoFetch[2]).allowed
    THEN Posts(network) ELSE {"created"}

----------------------------------------------------------------------------
(* The reader's loop, statement by statement: an iteration is the steps    *)
(* StepRead (reader.read() returns a tag; the debounce), StepRefresh       *)
(* (process_rfid_tag's refresh) and StepClassify (the rest of              *)
(* process_rfid_tag, and the sleep).  step tells which statement comes     *)
(* next.                                                                   *)

\* StepRead that does not wait for the read in hand to be dealt with, as a
\* second thread reading tags would
StepRead_overlapping(rfid_tag, wait) ==
    /\ pc = "running"
    /\ reads < ReadBound(network)
    /\ LET current_time == clock + wait
       IN  /\ clock' = current_time
           /\ cur' = [NoCur EXCEPT !.tag = rfid_tag, !.at = current_time,
                                   !.allowed = TRUE,
                                   !.start = Globals(current_time)]
           /\ last_tag' = Some(rfid_tag)
           /\ last_read_time' = Some(current_time)
    /\ step' = "refresh"
    /\ reads' = reads + 1
    /\ UNCHANGED <<pc, done, collaborators_cache, cache_last_update,
                   presence_control, session_stats, last, prev_event,
                   last_allowed, entry_read_at, ever_fetched, moves, tally>>
    /\ UNCHANGED <<network, sim_vars, server_vars>>

\* rfid_reader.py:266-278: a tag shows up after wait; a read within the
\* debounce window goes back to reader.read() (continue), another is recorded.
StepRead(rfid_tag, wait) ==
    /\ pc = "running"
    /\ step = "read"
    /\ reads < ReadBound(network)
    /\ LET current_time == clock + wait
           skip == /\ last_tag = Some(rfid_tag)
                   /\ Truthy(last_read_time)
                   /\ (current_time - last_read_time[1]) < Seconds(DEBOUNCE_TIME)
       IN  /\ clock' = current_time
           /\ cur' = [NoCur EXCEPT !.tag = rfid_tag, !.at = current_time,
                                   !.allowed = ~skip,
                                   !.start = Globals(current_time)]
           /\ IF skip
              THEN /\ step' = "read"
                   /\ done' = done + 1
                   /\ UNCHANGED <<last_tag, last_read_time>>
              ELSE /\ step' = "refresh"
                   /\ done' = done
                   /\ last_tag' = Some(rfid_tag)
                   /\ last_read_time' = Some(current_time)
    /\ reads' = reads + 1
    /\ UNCHANGED <<pc, collaborators_cache, cache_last_update,
                   presence_control, session_stats, last, prev_event,
                   last_allowed, entry_read_at, ever_fetched, moves, tally>>
    /\ UNCHANGED <<network, sim_vars, server_vars>>

\* The fetches the refresh of the read in hand may meet.
StepFetches ==
    IF should_refresh_cache(Globals(clock)) THEN Fetches(network) ELSE {NoFetch}

\* rfid_reader.py:170-171
StepRefresh(resp, delay) ==
    /\ pc = "running"
    /\ step = "refresh"
    /\ LET s == refresh_if_needed(Globals(clock), resp, delay)
       IN  /\ collaborators_cache' = s.cache
           /\ cache_last_update' = s.upd
           /\ clock' = s.now
    /\ cur' = [cur EXCEPT !.resp = resp, !.delay = delay]
    /\ step' = "classify"
    /\ UNCHANGED <<pc, reads, done, presence_control, session_stats, last_tag,
                   last_read_time, last, prev_event, last_allowed,
                   entry_read_at, ever_fetched, moves, tally>>
    /\ UNCHANGED <<network, sim_vars, server_vars>>

\* rfid_reader.py:173-196, and the sleep of line 284
StepClassify(post) ==
    /\ pc = "running"
    /\ step = "classify"
    /\ LET s == classify_tag([Globals(clock) EXCEPT !.post = post], cur.tag)
       IN  /\ presence_control' = s.presence
           /\ session_stats' = s.stats
           /\ clock' = s.now + HalfSecond
           /\ cur' = [cur EXCEPT !.out = s.out]
           /\ tally' = Tallied(tally, s.out, s.duration)
    /\ step' = "read"
    /\ done' = done + 1
    /\ UNCHANGED <<pc, reads, collaborators_cache, cache_last_update, last_tag,
                   last_read_time, last, prev_event, last_allowed,
                   entry_read_at, ever_fetched, moves>>
    /\ UNCHANGED <<network, sim_vars, server_vars>>

----------------------------------------------------------------------------
(* The simulator (test_simulator.py) *)

ExampleTags == {"RFID001", "RFID002", "RFID003", "RFID004"}

\* The offline example data of load_collaborators.
ExampleData ==
    [t \in ExampleTags |->
        CASE t = "RFID001" -> Collab("Joao Silva", TRUE)
          [] t = "RFID002" -> Collab("Maria Santos", TRUE)
          [] t = "RFID003" -> Collab("Pedro Oliveira", FALSE)
          [] t = "RFID004" -> Collab("Ana Costa", TRUE)]

SimTags == {"RFID001", "RFID003", "RFID999"}

\* load_collaborators: the mapping it leaves in self.collaborators and what
\* it returns.
load_collaborators(collaborators, resp) ==
    CASE resp.kind = "ok" -> [collaborators |-> resp.body, ret |-> TRUE]
      [] resp.kind = "exception" -> [collaborators |-> ExampleData, ret |-> FALSE]
      [] OTHER -> [collaborators |-> collaborators, ret |-> FALSE]

\* log_to_api of the simulator: the call made and what it returns
\* (status_code == 201, False on a RequestException).
SimLog(rfid_tag, collaborator_name, event_type, access_granted, post) ==
    [rfid_tag |-> rfid_tag, collaborator_name |-> collaborator_name,
     event_type |-> event_type, access_granted |-> access_granted,
     result |-> (post = "created")]

\* simulate_read that lets a holder without access leave
simulate_read_exit_first(collaborators, presence, rfid_tag, now, post) ==
    IF rfid_tag \notin DOMAIN collaborators
    THEN [presence |-> presence, ret |-> "unknown", first |-> None,
          out |-> <<SimLog(rfid_tag, UnknownName, "unknown", FALSE, post)>>]
    ELSE LET collaborator == collaborators[rfid_tag]
             name == collaborator.name
             has_access == collaborator.has_access
         IN  IF IsInside(presence, rfid_tag)
             THEN [presence |-> [presence EXCEPT ![rfid_tag].is_inside = FALSE],
                   ret |-> "exit", first |-> None,
                   out |-> <<SimLog(rfid_tag, name, "exit", TRUE, post)>>]
             ELSE IF ~has_access
                  THEN [presence |-> presence, ret |-> "denied", first |-> None,
                        out |-> <<SimLog(rfid_tag, name, "denied", FALSE, post)>>]
                  ELSE [presence |-> DictSet(presence, rfid_tag,
                                        [name |-> name, is_inside |-> TRUE,
                                         entry_time |-> now]),
                        ret |-> "entry",
                        first |-> Some(rfid_tag \notin DOMAIN presence),
                        out |-> <<SimLog(rfid_tag, name, "entry", TRUE, post)>>]

\* simulate_read: the presence it leaves, the call of log_to_api it makes,
\* what it returns and, for an entry, whether it was greeted as a first one.
simulate_read(collaborators, presence, rfid_tag, now, post) ==
    IF rfid_tag \notin DOMAIN collaborators
    THEN [presence |-> presence, ret |-> "unknown", first |-> None,
          out |-> <<SimLog(rfid_tag, UnknownName, "unknown", FALSE, post)>>]
    ELSE LET collaborator == collaborators[rfid_tag]
             name == collaborator.name
             has_access == collaborator.has_access
         IN  IF ~has_access
             THEN [presence |-> presence, ret |-> "denied", first |-> None,
                   out |-> <<SimLog(rfid_tag, name, "denied", FALSE, post)>>]
             ELSE IF IsInside(presence, rfid_tag)
                  THEN [presence |-> [presence EXCEPT ![rfid_tag].is_inside = FALSE],
                        ret |-> "exit", first |-> None,
                        out |-> <<SimLog(rfid_tag, name, "exit", TRUE, post)>>]
                  ELSE [presence |-> DictSet(presence, rfid_tag,
                                        [name |-> name, is_inside |-> TRUE,
                                         entry_time |-> now]),
                        ret |-> "entry",
                        first |-> Some(rfid_tag \notin DOMAIN presence),
                        out |-> <<SimLog(rfid_tag, name, "entry", TRUE, post)>>]

SimNone ==
    [op |-> "none", resp |-> "none", ret |-> "none", tag |-> "", out |-> <<>>,
     first |-> None]

SimInit ==
    /\ sim_pc = "init"
    /\ sim_collaborators = EmptyDict
    /\ sim_presence_control = EmptyDict
    /\ sim_last = SimNone
    /\ sim_loaded = FALSE
    /\ sim_moves = EmptyDict
    /\ sim_ops = 0

\* RFIDSimulator(): __init__ loads the collaborators.
SimStart(resp) ==
    /\ sim_pc = "init"
    /\ pc = "init"
    /\ network = "flaky"
    /\ LET r == load_collaborators(sim_collaborators, resp)
       IN  /\ sim_collaborators' = r.collaborators
           /\ sim_last' = [SimNone EXCEPT !.op = "start", !.resp = resp.kind,
                                          !.ret = IF r.ret THEN "true" ELSE "false"]
           /\ sim_loaded' = (sim_loaded \/ r.ret)
    /\ sim_pc' = "ready"
    /\ UNCHANGED <<sim_presence_control, sim_moves, sim_ops>>
    /\ UNCHANGED <<network, reader_vars, server_vars>>

\* interactive_mode, command "reload".
SimReload(resp) ==
    /\ sim_pc = "ready"
    /\ sim_ops < MaxSimOps
    /\ LET r == load_collaborators(sim_collaborators, resp)
       IN  /\ sim_collaborators' = r.collaborators
           /\ sim_last' = [SimNone EXCEPT !.op = "reload", !.resp = resp.kind,
                                          !.ret = IF r.ret THEN "true" ELSE "false"]
           /\ sim_loaded' = (sim_loaded \/ r.ret)
    /\ sim_ops' = sim_ops + 1
    /\ UNCHANGED <<sim_pc, sim_presence_control, sim_moves>>
    /\ UNCHANGED <<network, reader_vars, server_vars>>

\* interactive_mode, a tag typed in; the scenarios call simulate_read too.
SimRead(rfid_tag, post) ==
    /\ sim_pc = "ready"
    /\ sim_ops < MaxSimOps
    /\ LET r == simulate_read(sim_collaborators, sim_presence_control, rfid_tag,
                              clock, post)
       IN  /\ sim_presence_control' = r.presence
           /\ sim_last' = [SimNone EXCEPT !.op = "read", !.ret = r.ret,
                                          !.tag = rfid_tag, !.out = r.out,
                                          !.first = r.first]
           /\ sim_moves' = Moved(sim_moves, rfid_tag, {r.ret})
    /\ sim_ops' = sim_ops + 1
    /\ UNCHANGED <<sim_pc, sim_collaborators, sim_loaded>>
    /\ UNCHANGED <<network, reader_vars, server_vars>>

----------------------------------------------------------------------------
(* The two programs.  A behaviour is a run of one of them: the reader, with *)
(* the network up, flaky or down, or the simulator.                         *)

Init ==
    /\ network \in {"up", "flaky", "down"}
    /\ ReaderInit
    /\ SimInit
    /\ ServerInit

Next ==
    \/ \E f \in StartFetches(network) : Startup(f[1], f[2])
    \/ \E t \in Tags, w \in Waits :
          \E f \in FetchesFor(t, w), p \in PostsFor(t, w) :
             ReadTag(t, w, f[1], f[2], p)
    \/ \E resp \in Responses : SimStart(resp)
    \/ \E resp \in Responses : SimReload(resp)
    \/ \E t \in SimTags, p \in PostResults : SimRead(t, p)

Spec == Init /\ [][Next]_vars

\* The reader alone, its loop taken statement by statement.
NextSteps ==
    \/ \E f \in StartFetches(network) : Startup(f[1], f[2])
    \/ \E t \in Tags, w \in Waits : StepRead(t, w)
    \/ \E f \in StepFetches : StepRefresh(f[1], f[2])
    \/ \E p \in Posts(network) : StepClassify(p)

SpecSteps == Init /\ [][NextSteps]_vars

\* The reader and app.py: the reader fetches the table app.py holds and its
\* events reach log_access, while an administrator changes the table.
InitServer ==
    /\ network = "served"
    /\ ReaderInit
    /\ SimInit
    /\ ServerInit

NextServer ==
    \/ \E f \in StartFetches(network) : Startup(f[1], f[2])
    \/ \E t \in Tags, w \in ServedWaits :
          \E f \in FetchesFor(t, w), p \in PostsFor(t, w) :
             ReadTag(t, w, f[1], f[2], p)
    \/ \E data \in CreateRequests : CreateCollaborator(data)
    \/ \E u \in UpdateRequests : UpdateCollaborator(u[1], u[2])
    \/ \E id \in DeleteRequests : DeleteCollaborator(id)

SpecServer == InitServer /\ [][NextServer]_vars

\* app.py alone, asked directly: an administrator logs in, time passes, and
\* requests come with and without a token, on a host in one of the zones.
InitAuth ==
    /\ network = "served"
    /\ ReaderInit
    /\ SimInit
    /\ DatabaseInit
    /\ utc_offset \in UtcOffsets

NextAuth ==
    \/ \E data \in Credentials : Login(data)
    \/ \E d \in {ElapseStep} : Elapse(d)
    \/ \E h \in Headers : RequestGetCollaborators(h)
    \/ \E h \in Headers, data \in CreateRequests : RequestCreateCollaborator(h, data)
    \/ \E h \in Headers, u \in UpdateRequests : RequestUpdateCollaborator(h, u[1], u[2])
    \/ \E h \in Headers, id \in DeleteRequests : RequestDeleteCollaborator(h, id)
    \/ \E h \in Headers : RequestGetLogs(h)
    \/ \E h \in Headers : RequestGetRfidData(h)
    \/ \E h \in Headers, data \in LogRequests : RequestLogAccess(h, data)

SpecAuth == InitAuth /\ [][NextAuth]_vars

\* The reader while the network recovers: from Heal on, every fetch is
\* answered.  The reads are those that pass the debounce (a read it skips
\* changes nothing), and run()'s loop, which never ends, goes on taking them.
Heal ==
    /\ network = "lost"
    /\ pc = "running"
    /\ network' = "healed"
    /\ UNCHANGED <<reader_vars, sim_vars, server_vars>>

ProcessedRead(rfid_tag, wait, resp, delay, post) ==
    /\ pc = "running"
    /\ reads < ReadBound(network)
    /\ run_iteration(Globals(clock + wait), rfid_tag, NoFetch[1], NoFetch[2]).allowed
    /\ ReadTag(rfid_tag, wait, resp, delay, post)

LiveRead ==
    /\ reads' = reads + 1
    /\ \E t \in Tags, w \in LiveWaits :
          \E f \in FetchesFor(t, w), p \in PostsFor(t, w) :
             ProcessedRead(t, w, f[1], f[2], p)

InitLive ==
    /\ network = "lost"
    /\ ReaderInit
    /\ SimInit
    /\ ServerInit

NextLive ==
    \/ \E f \in StartFetches(network) : Startup(f[1], f[2])
    \/ LiveRead
    \/ Heal

SpecLive == InitLive /\ [][NextLive]_vars /\ WF_vars(LiveRead)

----------------------------------------------------------------------------
(* Reading the history *)

\* The kind of the event an iteration produced ("none": it produced none).
EventKind(l) == IF Len(l.out) = 1 THEN l.out[1].event_type ELSE "none"

EventKinds == {"entry", "exit", "denied", "unknown"}

\* This step is an iteration of the reader's loop.
IsRead == reads' = reads + 1
\* ... whose read passed the debounce / was skipped by it.
IsProcessed == IsRead /\ last'.allowed
IsSuppressed == IsRead /\ ~last'.allowed

\* d.get(k, 0) of a counter
Count(d, k) == DictGet(d, k, 0)

\* Every entry of dict d but that of key k is in e unchanged, and e has no
\* other key.
SameBut(d, e, k) ==
    /\ (DOMAIN e) \ {k} = (DOMAIN d) \ {k}
    /\ \A x \in (DOMAIN d) \ {k} : e[x] = d[x]

----------------------------------------------------------------------------
(* C1: a read that passes the debounce is classified from the cache as it  *)
(* is once the read's refresh step is over and from the presence as it was *)
(* before the read: Unknown when the tag is not in the cache, Denied when  *)
(* it is there without access, Entry when it has access and is not marked  *)
(* inside, Exit when it has access and is marked inside.  Entry marks the  *)
(* tag inside, Exit marks it outside, Unknown and Denied leave the         *)
(* presence registry as it was.                                            *)
C1_Table ==
    LET t == last'.tag
        c == collaborators_cache'
        k == EventKind(last')
    IN  /\ t \notin DOMAIN c
            => k = "unknown" /\ presence_control' = presence_control
        /\ (t \in DOMAIN c /\ ~c[t].has_access)
            => k = "denied" /\ presence_control' = presence_control
        /\ (t \in DOMAIN c /\ c[t].has_access /\ ~IsInside(presence_control, t))
            => /\ k = "entry"
               /\ IsInside(presence_control', t)
               /\ SameBut(presence_control, presence_control', t)
        /\ (t \in DOMAIN c /\ c[t].has_access /\ IsInside(presence_control, t))
            => /\ k = "exit"
               /\ ~IsInside(presence_control', t)
               /\ SameBut(presence_control, presence_control', t)

C1_Classification == [][IsProcessed => C1_Table]_vars

\* An Exit has been classified, and the tag is marked outside.
C1_Witness ==
    /\ last.allowed
    /\ EventKind(last) = "exit"
    /\ last.tag \in DOMAIN presence_control
    /\ ~presence_control[last.tag].is_inside

(* C2: for a tag the cache gives access, the events alternate: a read that *)
(* passes the debounce is an Entry when the tag has had no event yet or    *)
(* its latest event was an Exit, and an Exit when its latest event was an  *)
(* Entry, whatever the time since that Entry.                              *)
C2_Alternation ==
    [][(/\ IsProcessed
        /\ last'.tag \in DOMAIN collaborators_cache'
        /\ collaborators_cache'[last'.tag].has_access)
       => LET t == last'.tag
              before == DictGet(prev_event, t, "none")
          IN  /\ before \in {"none", "exit"} => EventKind(last') = "entry"
              /\ before = "entry" => EventKind(last') = "exit"]_vars

\* Entry, Exit, Entry: the third read of a holder is an Entry again, after a
\* stay that an Exit closed a refresh interval or more after its Entry.
C2_Witness ==
    /\ EventKind(last) = "entry"
    /\ last.tag = "RFID001"
    /\ "Joao Silva" \in DOMAIN session_stats.time_in_room
    /\ session_stats.time_in_room["Joao Silva"] >= Seconds(CACHE_REFRESH_INTERVAL)

(* C3: a read (past the debounce) of a tag the cache holds without access  *)
(* is Denied, every time; it adds exactly 1 to the denied attempts of the  *)
(* holder's name and to no other name's, and leaves the presence registry  *)
(* as it was, also when the tag is still marked inside.                    *)
C3_Denied ==
    [][(/\ IsProcessed
        /\ last'.tag \in DOMAIN collaborators_cache'
        /\ ~collaborators_cache'[last'.tag].has_access)
       => LET name == collaborators_cache'[last'.tag].name
              old == session_stats.access_attempts
              new == session_stats'.access_attempts
          IN  /\ EventKind(last') = "denied"
              /\ name \in DOMAIN new
              /\ new[name] = Count(old, name) + 1
              /\ SameBut(old, new, name)
              /\ presence_control' = presence_control]_vars

\* Three Denied reads of a holder who is still marked inside from the time
\* the holder had access.
C3_Witness ==
    /\ EventKind(last) = "denied"
    /\ Count(session_stats.access_attempts, "Joao Silva") = 3
    /\ IsInside(presence_control, "RFID001")

(* C4: a read (past the debounce) of a tag that is in no snapshot fetched  *)
(* so far is Unknown, adds exactly 1 to the intrusion count and changes    *)
(* neither the presence registry nor the denied attempts.                  *)
C4_Unknown ==
    [][(IsProcessed /\ last'.tag \notin ever_fetched')
       => /\ EventKind(last') = "unknown"
          /\ session_stats'.invasion_attempts = session_stats.invasion_attempts + 1
          /\ presence_control' = presence_control
          /\ session_stats'.access_attempts = session_stats.access_attempts]_vars

\* No refresh has succeeded since the start (the snapshot is empty), and the
\* read of RFID999 was the first intrusion counted.
C4_Witness ==
    /\ cache_last_update = None
    /\ collaborators_cache = EmptyDict
    /\ last.tag = "RFID999"
    /\ EventKind(last) = "unknown"
    /\ session_stats.invasion_attempts = 1

(* C5 as stated: once a refresh has succeeded, a refresh whose fetch fails *)
(* (an exception or a status other than 200) leaves the snapshot as it     *)
(* was and reports false, in the reader's update_cache and in the          *)
(* simulator's load_collaborators alike.                                   *)
C5_Reader ==
    (last'.ret = Some(FALSE) /\ (IsRead \/ pc # pc'))
        => /\ collaborators_cache' = collaborators_cache
           /\ cache_last_update' = cache_last_update

C5_AsStated ==
    [][/\ cache_last_update # None => C5_Reader
       /\ (sim_loaded /\ sim_last'.op = "reload" /\ sim_ops' # sim_ops
             /\ sim_last'.resp \in {"exception", "status"})
          => /\ sim_collaborators' = sim_collaborators
             /\ sim_last'.ret = "false"]_vars

(* C5, the part the code keeps: a failed refresh of the reader leaves the   *)
(* snapshot and the time of its last update as they were and reports       *)
(* false, whatever the failure and whether or not a refresh had succeeded  *)
(* before.  A load of the simulator answered with a status other than 200  *)
(* leaves its snapshot as it was and reports false; one that raises an     *)
(* exception reports false too, but replaces the snapshot by the offline   *)
(* example data.                                                           *)
C5_FailedRefresh ==
    [][/\ C5_Reader
       /\ (IsRead \/ pc # pc') /\ last'.fetch_done # None /\ last'.body = None
             => last'.ret = Some(FALSE)
       /\ (sim_last'.op \in {"start", "reload"}
             /\ (sim_ops' # sim_ops \/ sim_pc' # sim_pc))
          => /\ sim_last'.resp = "status"
                => sim_collaborators' = sim_collaborators /\ sim_last'.ret = "false"
             /\ sim_last'.resp = "exception"
                => sim_collaborators' = ExampleData /\ sim_last'.ret = "false"]_vars

\* A refresh of the reader has failed after an earlier one had filled the
\* cache, which still holds its entries.
C5_Witness ==
    /\ last.ret = Some(FALSE)
    /\ cache_last_update # None
    /\ collaborators_cache # EmptyDict
    /\ reads > 0

(* C6: every read that passes the debounce produces exactly one event, of  *)
(* kind Entry, Exit, Denied or Unknown, whether the refresh made during    *)
(* the read succeeded, failed or was not made; when it failed the cache is *)
(* the one retained from before.  A read the debounce skips produces no    *)
(* event.                                                                  *)
C6_OneEvent ==
    [][/\ IsProcessed
          => /\ Len(last'.out) = 1
             /\ last'.out[1].event_type \in EventKinds
             /\ last'.out[1].rfid_tag = last'.tag
             /\ last'.ret # Some(TRUE) => collaborators_cache' = collaborators_cache
       /\ IsSuppressed => last'.out = <<>>]_vars

\* Two reads in a row whose refresh failed were both classified, from the
\* snapshot of the start: an Entry, then an Exit.
C6_Witness ==
    /\ reads = 2
    /\ last.ret = Some(FALSE)
    /\ EventKind(last) = "exit"
    /\ last.tag \in DOMAIN collaborators_cache

(* C7: a read of the tag the debounce recorded last, less than the window *)
(* after that read, is skipped: it produces no event, makes no refresh and *)
(* changes nothing: the cache and the time of its update, the presence     *)
(* registry, the session statistics, and the tag and time the debounce has *)
(* recorded are as before the read.  No other read is skipped.             *)
C7_Within ==
    /\ last_tag = Some(last'.tag)
    /\ last_read_time # None
    /\ last'.at - last_read_time[1] < Seconds(DEBOUNCE_TIME)

C7_SuppressedFrame ==
    [][IsRead
       => /\ C7_Within <=> ~last'.allowed
          /\ C7_Within
             => /\ last'.out = <<>>
                /\ last'.ret = None
                /\ UNCHANGED <<collaborators_cache, cache_last_update,
                               presence_control, session_stats, last_tag,
                               last_read_time>>]_vars

\* A read has been skipped: it came less than the window after the read of
\* the same tag that the debounce recorded.
C7_Witness ==
    /\ reads > 0
    /\ ~last.allowed
    /\ last_tag = Some(last.tag)
    /\ last.at - last_read_time[1] < Seconds(DEBOUNCE_TIME)

(* C8: a read of a tag is skipped exactly when that tag's own latest read  *)
(* that passed the debounce was less than the window before it, whatever   *)
(* tags were read in between; a read that passes is recorded, tag and      *)
(* time.                                                                   *)
C8_PerTag ==
    [][IsRead
       => LET t == last'.tag
              now == last'.at
          IN  /\ ~last'.allowed
                 <=> (t \in DOMAIN last_allowed
                      /\ now - last_allowed[t] < Seconds(DEBOUNCE_TIME))
              /\ last'.allowed
                 => last_tag' = Some(t) /\ last_read_time' = Some(now)]_vars

\* A read of RFID001 has passed (an Exit) after an earlier read of it (its
\* Entry) and a read of RFID999 in between.
C8_Witness ==
    /\ last.allowed
    /\ last.tag = "RFID001"
    /\ EventKind(last) = "exit"
    /\ "RFID999" \in DOMAIN last_allowed
    /\ "RFID001" \in DOMAIN entry_read_at
    /\ entry_read_at["RFID001"] < last_allowed["RFID999"]
    /\ last_allowed["RFID999"] < last.at

(* C9 as stated: the duration an Exit records, which is what it adds to    *)
(* the holder's time in the room, is the time of the Exit read minus the   *)
(* time of the Entry read that opened the stay.                            *)
C9_ReadToRead ==
    [][(IsProcessed /\ EventKind(last') = "exit")
       => LET t == last'.tag
              name == last'.out[1].collaborator_name
              d == last'.at - entry_read_at[t]
          IN  /\ last'.duration = Some(d)
              /\ session_stats'.time_in_room[name]
                    = Count(session_stats.time_in_room, name) + d]_vars

(* C10: a refresh that succeeds replaces the snapshot: the cache is then   *)
(* the mapping fetched, nothing of the previous snapshot is kept, the time *)
(* of the last update is the time the answer came, and update_cache        *)
(* returns true.                                                           *)
C10_Replace ==
    [][((IsRead \/ pc # pc') /\ last'.body # None)
       => /\ collaborators_cache' = last'.body[1]
          /\ cache_last_update' = last'.fetch_done
          /\ last'.ret = Some(TRUE)]_vars

\* A refresh has brought the empty mapping in the place of a snapshot that
\* held RFID001, whose holder had entered.
C10_Witness ==
    /\ last.ret = Some(TRUE)
    /\ last.body = Some(EmptyDict)
    /\ collaborators_cache = EmptyDict
    /\ IsInside(presence_control, "RFID001")

(* C11: a read that passes the debounce attempts a refresh exactly when no *)
(* refresh has succeeded yet or the time of the read is the refresh        *)
(* interval (300 seconds) or more after the last successful one; with a    *)
(* snapshot fetched less than the interval ago it attempts none.           *)
C11_NeedsRefresh ==
    [][IsProcessed
       => (last'.ret # None
           <=> \/ cache_last_update = None
               \/ last'.at - cache_last_update[1]
                     >= TicksPerSecond * CACHE_REFRESH_INTERVAL)]_vars

\* A read made exactly the interval after the last successful refresh has
\* attempted a refresh, which failed.
C11_Witness ==
    /\ last.allowed
    /\ last.ret = Some(FALSE)
    /\ cache_last_update # None
    /\ last.at - cache_last_update[1] = TicksPerSecond * CACHE_REFRESH_INTERVAL

(* C12: whether the POST of an event succeeds or fails changes nothing of  *)
(* what the read does: the event produced, the presence registry, the      *)
(* session statistics, the cache and what the debounce recorded are, after *)
(* every read, what the same read leaves when its POST is stored; so with  *)
(* a failed POST nothing that was applied is taken back.  The same holds   *)
(* for simulate_read of the simulator.                                     *)
C12_LogFailure ==
    [][/\ IsProcessed
          => LET l == last'
                 resp == IF l.body # None THEN Ok(l.body[1])
                         ELSE [kind |-> "exception", body |-> EmptyDict]
                 delay == IF l.fetch_done # None THEN l.fetch_done[1] - l.at ELSE 0
                 stored == run_iteration(
                               [Globals(l.at) EXCEPT !.post = "created"],
                               l.tag, resp, delay)
             IN  /\ l.out = stored.out
                 /\ Len(l.out) = 1
                 /\ l.logged \in {Some("created"), Some("exception")}
                 /\ presence_control' = stored.presence
                 /\ session_stats' = stored.stats
                 /\ collaborators_cache' = stored.cache
                 /\ cache_last_update' = stored.upd
                 /\ last_tag' = stored.last_tag
                 /\ last_read_time' = stored.last_read_time
       /\ (sim_ops' = sim_ops + 1 /\ sim_last'.op = "read")
          => LET stored == simulate_read(sim_collaborators, sim_presence_control,
                                         sim_last'.tag, clock, "created")
             IN  /\ sim_last'.ret = stored.ret
                 /\ Len(sim_last'.out) = 1
                 /\ sim_last'.out[1].event_type = stored.out[1].event_type
                 /\ sim_presence_control' = stored.presence
                 /\ sim_collaborators' = sim_collaborators]_vars

\* The POST of an Exit failed: the tag is marked outside all the same and the
\* stay is credited.
C12_Witness ==
    /\ last.logged = Some("exception")
    /\ EventKind(last) = "exit"
    /\ last.tag \in DOMAIN presence_control
    /\ ~presence_control[last.tag].is_inside
    /\ last.out[1].collaborator_name \in DOMAIN session_stats.time_in_room

(* C13: the reads are dealt with one at a time, in the order they were     *)
(* made: while a read is in hand no other read is taken, every statement   *)
(* executed belongs to the read in hand, and when the read is dealt with   *)
(* the cache, the presence registry, the statistics and the debounce       *)
(* record are what the whole of run()'s iteration makes of the state that  *)
(* the read found, and the event is that read's.  The presence registry    *)
(* changes only in the classification of the read in hand, for its tag.    *)
C13_Serial ==
    [][/\ (step' = "read") <=> (reads' = done')
       /\ (step' # "read") => (reads' = done' + 1)
       /\ reads' # reads => step = "read"
       /\ done' # done
          => LET whole == run_iteration(cur'.start, cur'.tag, cur'.resp, cur'.delay)
             IN  /\ cur'.allowed = whole.allowed
                 /\ cur'.out = whole.out
                 /\ \A i \in DOMAIN cur'.out : cur'.out[i].rfid_tag = cur'.tag
                 /\ collaborators_cache' = whole.cache
                 /\ cache_last_update' = whole.upd
                 /\ presence_control' = whole.presence
                 /\ session_stats' = whole.stats
                 /\ last_tag' = whole.last_tag
                 /\ last_read_time' = whole.last_read_time
                 /\ clock' = whole.now
       /\ presence_control' # presence_control
          => /\ step = "classify"
             /\ SameBut(presence_control, presence_control', cur.tag)]_vars

\* Two reads of one tag have been dealt with in the order they were made:
\* the second one, after the Entry, gave the Exit.
C13_Witness ==
    /\ step = "read"
    /\ done >= 2
    /\ cur.tag = "RFID001"
    /\ Len(cur.out) = 1
    /\ cur.out[1].event_type = "exit"
    /\ cur.delay > 0

(* C14: at any time the occupants reported, the tags whose presence entry  *)
(* has is_inside, are exactly the tags whose latest Entry or Exit was an   *)
(* Entry; a tag with no Entry yet, or whose latest such event was an Exit, *)
(* is not among them, whatever Denied or Unknown reads and refreshes came  *)
(* in between.  Equivalently a tag's Entries less its Exits are 1 when it  *)
(* is inside and 0 when it is not.  In the reader and in the simulator.    *)
C14_Occupants ==
    /\ current_occupants(presence_control)
          = {t \in DOMAIN moves : moves[t].latest = "entry"}
    /\ \A t \in DOMAIN moves :
          moves[t].net = IF IsInside(presence_control, t) THEN 1 ELSE 0
    /\ DOMAIN moves = DOMAIN presence_control
    /\ current_occupants(sim_presence_control)
          = {t \in DOMAIN sim_moves : sim_moves[t].latest = "entry"}
    /\ \A t \in DOMAIN sim_moves :
          sim_moves[t].net = IF IsInside(sim_presence_control, t) THEN 1 ELSE 0
    /\ DOMAIN sim_moves = DOMAIN sim_presence_control

\* The holder entered, then lost access and was Denied: the latest event of
\* the tag is the Denied one, and the holder is still reported inside.
C14_Witness ==
    /\ "RFID001" \in current_occupants(presence_control)
    /\ EventKind(last) = "denied"
    /\ last.tag = "RFID001"
    /\ moves["RFID001"].latest = "entry"
    /\ moves["RFID001"].net = 1

(* C15 as stated: the refresh check comes before the debounce, so every    *)
(* read that arrives when the cache needs refreshing attempts a refresh,   *)
(* a read that the debounce then skips included.                           *)
C15_RefreshFirst ==
    [][(/\ IsRead
        /\ \/ cache_last_update = None
           \/ last'.at - cache_last_update[1]
                 >= TicksPerSecond * CACHE_REFRESH_INTERVAL)
       => last'.ret # None]_vars

(* C15 as the code has it: the debounce comes first, then the refresh      *)
(* check, then the classification.  A read that the debounce skips         *)
(* attempts no refresh, also when the cache needs refreshing; a read that  *)
(* passes the debounce when the cache needs refreshing attempts the        *)
(* refresh, and is classified from the mapping fetched when the refresh    *)
(* succeeds.                                                               *)
C15_DebounceFirst ==
    [][IsRead
       => LET need == \/ cache_last_update = None
                      \/ last'.at - cache_last_update[1]
                            >= TicksPerSecond * CACHE_REFRESH_INTERVAL
              t == last'.tag
          IN  /\ ~last'.allowed
                 => /\ last'.ret = None
                    /\ last'.fetch_done = None
                    /\ UNCHANGED <<collaborators_cache, cache_last_update>>
              /\ (last'.allowed /\ need)
                 => /\ last'.ret # None
                    /\ last'.body # None
                       => LET c == last'.body[1]
                          IN  /\ t \notin DOMAIN c <=> EventKind(last') = "unknown"
                              /\ (t \in DOMAIN c /\ ~c[t].has_access)
                                    <=> EventKind(last') = "denied"]_vars

\* A read was skipped by the debounce while the cache needed refreshing (the
\* last successful refresh was the interval or more before): no refresh was
\* attempted.
C15_Witness ==
    /\ reads > 0
    /\ ~last.allowed
    /\ last.ret = None
    /\ cache_last_update # None
    /\ last.at - cache_last_update[1] >= TicksPerSecond * CACHE_REFRESH_INTERVAL

(* C16: a refresh never changes the presence registry.  When a refresh has *)
(* taken a tag that is marked inside out of the snapshot, a read of that   *)
(* tag (past the debounce) is Unknown and counted as an intrusion; no Exit *)
(* is produced, no time is credited and the tag stays marked inside.       *)
C16_RemovedInside ==
    [][/\ pc' # pc => presence_control' = presence_control
       /\ IsRead => SameBut(presence_control, presence_control', last'.tag)
       /\ (/\ IsProcessed
           /\ IsInside(presence_control, last'.tag)
           /\ last'.tag \notin DOMAIN collaborators_cache')
          => /\ EventKind(last') = "unknown"
             /\ session_stats'.invasion_attempts
                   = session_stats.invasion_attempts + 1
             /\ session_stats'.time_in_room = session_stats.time_in_room
             /\ last'.duration = None
             /\ presence_control' = presence_control
             /\ IsInside(presence_control', last'.tag)]_vars

\* The holder was inside when a refresh brought a snapshot without the tag:
\* the read that made the refresh is an intrusion, and the holder is still
\* marked inside, with no time credited.
C16_Witness ==
    /\ last.tag = "RFID001"
    /\ last.ret = Some(TRUE)
    /\ "RFID001" \notin DOMAIN collaborators_cache
    /\ EventKind(last) = "unknown"
    /\ session_stats.invasion_attempts = 1
    /\ session_stats.time_in_room = EmptyDict
    /\ IsInside(presence_control, "RFID001")

(* C17: a read that the debounce skips does not restart the window: what  *)
(* the debounce has recorded stays the tag's latest read that passed, and  *)
(* the window is measured from that read.  A read of the tag made the      *)
(* window (3 seconds) or more after that read passes, exactly the window   *)
(* included, also when a skipped read of the tag came in between.          *)
C17_NoRestart ==
    [][IsRead
       => LET t == last'.tag
              now == last'.at
          IN  /\ ~last'.allowed
                 => /\ last_tag' = last_tag
                    /\ last_read_time' = last_read_time
                    /\ last_tag' = Some(t)
                    /\ last_read_time' = Some(last_allowed[t])
                    /\ last_allowed' = last_allowed
              /\ (t \in DOMAIN last_allowed
                  /\ now - last_allowed[t] >= TicksPerSecond * DEBOUNCE_TIME)
                 => last'.allowed]_vars

\* Allowed, skipped, allowed: a read has passed exactly the window after the
\* tag's previous read that passed, right after a read of the tag in between
\* was skipped.
C17_Witness ==
    /\ last.allowed
    /\ last.after_skip
    /\ last.since = Some(last.at - TicksPerSecond * DEBOUNCE_TIME)

(* C18 as stated: the fetch of a refresh is made by a background task and  *)
(* no read waits for it: a read that passes the debounce is classified     *)
(* from the snapshot that is current when the read is made, and at the     *)
(* time the read is made, however slow or unreachable the source is.       *)
C18_NeverBlocks ==
    [][IsProcessed
       => LET t == last'.tag
              c == collaborators_cache
          IN  /\ t \notin DOMAIN c <=> EventKind(last') = "unknown"
              /\ (t \in DOMAIN c /\ ~c[t].has_access)
                    <=> EventKind(last') = "denied"
              /\ EventKind(last') = "entry"
                    => presence_control'[t].entry_time = last'.at
              /\ last'.fetch_done \in {None, Some(last'.at)}]_vars

(* C19: while the refreshes succeed the snapshot is never older than the   *)
(* refresh interval when it is used: a read that passes the debounce and   *)
(* whose refresh, if it makes one, succeeds is classified from a snapshot  *)
(* fetched less than the interval before the read.  What has changed at    *)
(* the source takes effect at the latest with the first read processed the *)
(* interval or more after the last successful refresh: that read fetches,  *)
(* and is classified from the mapping fetched.                             *)
C19_BoundedStaleness ==
    [][IsProcessed
       => LET t == last'.tag
              ttl == TicksPerSecond * CACHE_REFRESH_INTERVAL
          IN  /\ last'.ret # Some(FALSE)
                 => /\ cache_last_update' # None
                    /\ last'.at - cache_last_update'[1] < ttl
              /\ (cache_last_update # None /\ last'.at - cache_last_update[1] >= ttl)
                 => /\ last'.ret # None
                    /\ last'.ret = Some(TRUE)
                       => /\ last'.body # None
                          /\ collaborators_cache' = last'.body[1]
                          /\ LET c == last'.body[1]
                             IN  CASE t \notin DOMAIN c -> EventKind(last') = "unknown"
                                   [] ~c[t].has_access -> EventKind(last') = "denied"
                                   [] OTHER -> EventKind(last') \in {"entry", "exit"}]_vars

\* Access was revoked at the source while the holder was inside: the read
\* made an interval after the last refresh fetched the change and was Denied.
C19_Witness ==
    /\ last.ret = Some(TRUE)
    /\ last.body = Some(Revoked)
    /\ last.since # None
    /\ EventKind(last) = "denied"
    /\ IsInside(presence_control, last.tag)
    /\ cache_last_update = last.fetch_done

(* C20: the time of the last update changes only when a refresh succeeds,  *)
(* and never goes back: a step in which update_cache failed or was not     *)
(* called leaves it as it was (None while no refresh has succeeded), and a *)
(* refresh that succeeds sets it to the time its answer came, which is not *)
(* before the previous value nor before the time the refresh was started.  *)
C20_FetchedAt ==
    [][/\ cache_last_update' # cache_last_update
          => /\ last'.ret = Some(TRUE)
             /\ cache_last_update' = last'.fetch_done
             /\ cache_last_update'[1] >= last'.at
             /\ cache_last_update # None
                => cache_last_update'[1] >= cache_last_update[1]
       /\ ((IsRead \/ pc' # pc) /\ last'.ret # Some(TRUE))
          => cache_last_update' = cache_last_update
       /\ ((IsRead \/ pc' # pc) /\ last'.ret = Some(TRUE))
          => cache_last_update' # None]_vars

\* A second refresh has succeeded, an interval or more after the one run()
\* started with: the time of the last update has moved forward.
C20_Witness ==
    /\ network = "up"
    /\ reads > 0
    /\ last.ret = Some(TRUE)
    /\ cache_last_update = last.fetch_done
    /\ cache_last_update[1] >= StartTime + TicksPerSecond * CACHE_REFRESH_INTERVAL

(* C21: handle_exit, and the exit branch of the simulator's simulate_read, *)
(* run only for a tag that has an entry in the presence registry with      *)
(* is_inside true (and so with the entry_time handle_exit reads), whatever *)
(* reads, refreshes and failed refreshes came before.                      *)
C21_ExitRequiresInside ==
    [][/\ (IsRead /\ "exit" \in {last'.out[i].event_type : i \in DOMAIN last'.out})
          => /\ last'.tag \in DOMAIN presence_control
             /\ presence_control[last'.tag].is_inside
             /\ presence_control[last'.tag].entry_time <= last'.at
       /\ (sim_ops' # sim_ops /\ sim_last'.op = "read" /\ sim_last'.ret = "exit")
          => /\ sim_last'.tag \in DOMAIN sim_presence_control
             /\ sim_presence_control[sim_last'.tag].is_inside]_vars

\* An Exit was taken on a read whose refresh failed, for a tag that had
\* entered once: it is marked outside now, its Entries and Exits cancel.
C21_Witness ==
    /\ EventKind(last) = "exit"
    /\ last.ret = Some(FALSE)
    /\ last.duration # None
    /\ last.tag \in DOMAIN moves
    /\ moves[last.tag].net = 0
    /\ ~IsInside(presence_control, last.tag)

(* C22: the presence registry only grows: no step removes a tag from it,   *)
(* and only an Entry adds one.  A tag is in the registry exactly when it   *)
(* has had an Entry.  An Entry is greeted as a first entry exactly when    *)
(* the tag has had no Entry before, so once per tag, and as a return every *)
(* other time.  The same holds for the simulator's registry.               *)
C22_NeverDeleted ==
    [][/\ DOMAIN presence_control = DOMAIN moves
       /\ DOMAIN sim_presence_control = DOMAIN sim_moves
       /\ DOMAIN presence_control \subseteq DOMAIN presence_control'
       /\ DOMAIN sim_presence_control \subseteq DOMAIN sim_presence_control'
       /\ IsRead
          => IF EventKind(last') = "entry"
             THEN /\ DOMAIN presence_control'
                        = DOMAIN presence_control \cup {last'.tag}
                  /\ last'.first = Some(last'.tag \notin DOMAIN moves)
             ELSE /\ DOMAIN presence_control' = DOMAIN presence_control
                  /\ last'.first = None
       /\ (sim_ops' # sim_ops /\ sim_last'.op = "read")
          => IF sim_last'.ret = "entry"
             THEN /\ DOMAIN sim_presence_control'
                        = DOMAIN sim_presence_control \cup {sim_last'.tag}
                  /\ sim_last'.first = Some(sim_last'.tag \notin DOMAIN sim_moves)
             ELSE /\ DOMAIN sim_presence_control' = DOMAIN sim_presence_control
                  /\ sim_last'.first = None]_vars

\* A holder has come back: Entry, Exit and an Entry greeted as a return.
C22_Witness ==
    /\ EventKind(last) = "entry"
    /\ last.first = Some(FALSE)
    /\ moves[last.tag] = [latest |-> "entry", net |-> 1]
    /\ IsInside(presence_control, last.tag)

(* C23: the session statistics only accumulate: in no step of the reader,  *)
(* a read or a refresh, does the count of invasion attempts, a name's      *)
(* count of denied attempts or a name's time in the room get smaller, and  *)
(* no name leaves either mapping.                                          *)
C23_Accumulate ==
    [][LET old == session_stats
           new == session_stats'
       IN  /\ new.invasion_attempts >= old.invasion_attempts
           /\ \A n \in DOMAIN old.access_attempts :
                 /\ n \in DOMAIN new.access_attempts
                 /\ new.access_attempts[n] >= old.access_attempts[n]
           /\ \A n \in DOMAIN old.time_in_room :
                 /\ n \in DOMAIN new.time_in_room
                 /\ new.time_in_room[n] >= old.time_in_room[n]]_vars

\* A holder's second stay, shorter than the first, has been added to the
\* time of the first.
C23_Witness ==
    /\ EventKind(last) = "exit"
    /\ last.tag \in DOMAIN moves
    /\ last.duration # None
    /\ LET name == last.out[1].collaborator_name
       IN  /\ name \in DOMAIN session_stats.time_in_room
           /\ session_stats.time_in_room[name] > 2 * last.duration[1]
           /\ session_stats.time_in_room[name] >= Seconds(CACHE_REFRESH_INTERVAL)
    /\ reads = 4

(* C24: what a read does but to the statistics does not depend on the      *)
(* statistics: the same read (tag, time, answer to its fetch), made in a   *)
(* state that differs from the reader's in the session statistics only,    *)
(* passes or fails the debounce alike, makes the same refresh, gives the   *)
(* same event (kind, name, granted) and leaves the same cache, presence    *)
(* registry and debounce record.                                           *)
C24_Names == {"Joao Silva", "Ana Costa", UnknownName}

\* Statistics other than the reader's: none at all, and a lot for every name.
C24_OtherStats ==
    {[access_attempts |-> EmptyDict, invasion_attempts |-> 0,
      time_in_room |-> EmptyDict],
     [access_attempts |-> [n \in C24_Names |-> 3], invasion_attempts |-> 7,
      time_in_room |-> [n \in C24_Names |-> Seconds(3600)]]}

C24_StatsNotConsulted ==
    [][IsRead
       => \A st \in C24_OtherStats :
             LET resp == IF last'.body # None THEN Ok(last'.body[1])
                         ELSE [kind |-> "exception", body |-> EmptyDict]
                 delay == IF last'.fetch_done # None
                          THEN last'.fetch_done[1] - last'.at ELSE 0
                 post == IF last'.logged # None THEN last'.logged[1] ELSE "created"
             IN  \A s2 \in {run_iteration([Globals(last'.at)
                                               EXCEPT !.stats = st,
                                                      !.post = post],
                                            last'.tag, resp, delay)} :
                    /\ s2.allowed = last'.allowed
                    /\ s2.ret = last'.ret
                    /\ s2.out = last'.out
                    /\ s2.cache = collaborators_cache'
                    /\ s2.upd = cache_last_update'
                    /\ s2.presence = presence_control'
                    /\ s2.last_tag = last_tag'
                    /\ s2.last_read_time = last_read_time'
                    /\ s2.now = clock']_vars

\* A holder who was denied before, in a session that has counted an
\* intrusion, has been let in.
C24_Witness ==
    /\ EventKind(last) = "entry"
    /\ session_stats.invasion_attempts > 0
    /\ Count(session_stats.access_attempts, last.out[1].collaborator_name) > 0

(* C25: the reader's process_rfid_tag and the simulator's simulate_read    *)
(* are the same classifier.  For every read of the reader that passes the  *)
(* debounce, simulate_read applied to the mapping the reader classifies    *)
(* from and to the presence registry the reader has gives the same kind    *)
(* of event, submits the same log (tag, name, kind, granted), greets an    *)
(* Entry alike, and leaves a registry with the same tags, names and        *)
(* is_inside flags.  Started from the same mapping and an empty registry,  *)
(* the two therefore stay in step read after read.                         *)
C25_SameLog(a, b) ==
    /\ a.rfid_tag = b.rfid_tag
    /\ a.collaborator_name = b.collaborator_name
    /\ a.event_type = b.event_type
    /\ a.access_granted = b.access_granted

C25_SameClassifier ==
    [][IsProcessed
       => LET r == simulate_read(collaborators_cache', presence_control,
                                 last'.tag, last'.at,
                                 IF last'.logged # None THEN last'.logged[1]
                                 ELSE "created")
          IN  /\ r.ret = EventKind(last')
              /\ Len(r.out) = Len(last'.out)
              /\ \A i \in DOMAIN r.out : C25_SameLog(r.out[i], last'.out[i])
              /\ r.first = last'.first
              /\ DOMAIN r.presence = DOMAIN presence_control'
              /\ \A x \in DOMAIN r.presence :
                    /\ r.presence[x].is_inside = presence_control'[x].is_inside
                    /\ r.presence[x].name = presence_control'[x].name]_vars

\* With no refresh in between, a holder who is inside and whose access was
\* revoked has been denied a second time.
C25_Witness ==
    /\ last.allowed
    /\ last.ret = None
    /\ EventKind(last) = "denied"
    /\ IsInside(presence_control, last.tag)
    /\ Count(session_stats.access_attempts, last.out[1].collaborator_name) >= 2

(* C26 as stated: when log_access receives an exit for a tag, it sets       *)
(* exit_timestamp on the most recent record of kind entry of that tag      *)
(* that has none yet, and changes no other record; no record of kind       *)
(* denied or unknown ever has an exit_timestamp, also when one was logged  *)
(* for the tag after the entry that is open.                               *)
C26_ClosesOpenEntry ==
    [][/\ (IsProcessed /\ network = "served" /\ EventKind(last') = "exit")
          => LET t == last'.tag
                 open == {i \in DOMAIN access_logs :
                             /\ access_logs[i].rfid_tag = t
                             /\ access_logs[i].event_type = "entry"
                             /\ access_logs[i].exit_timestamp = None}
                 latest == {i \in open : \A j \in open :
                               access_logs[j].timestamp <= access_logs[i].timestamp}
             IN  /\ DOMAIN access_logs' = DOMAIN access_logs
                 /\ \E i \in latest :
                       /\ access_logs'[i].exit_timestamp # None
                       /\ \A j \in (DOMAIN access_logs) \ {i} :
                             access_logs'[j] = access_logs[j]
       /\ \A i \in DOMAIN access_logs' :
             access_logs'[i].event_type \in {"denied", "unknown"}
                => access_logs'[i].exit_timestamp = None]_vars

(* C27 as stated: for every date, get_entries_exits_by_date counts what    *)
(* log_access received on that date: entries is the number of entry        *)
(* events, exits the number of exit events, total_events the number of all *)
(* events.                                                                 *)
C27_CountsMatch ==
    \A d \in {Date(submitted[i].at) : i \in DOMAIN submitted} :
       LET r == get_entries_exits_by_date(access_logs, d)
           on_d == {i \in DOMAIN submitted : Date(submitted[i].at) = d}
           sub(kind) == Cardinality({i \in on_d : submitted[i].event_type = kind})
       IN  /\ r.entries = sub("entry")
           /\ r.exits = sub("exit")
           /\ r.total_events = Cardinality(on_d)

(* C28: no two rows of the table collaborators hold the same tag, whatever *)
(* requests were made.  A create with a tag some row holds, and an update  *)
(* of a row to a tag another row holds, are answered 400 and leave the     *)
(* table as it was.  The mapping served to the reader has one entry for    *)
(* each row, under the row's tag, with the row's name and access.          *)
C28_Unique(table) ==
    \A i, j \in DOMAIN table : table[i].rfid_tag = table[j].rfid_tag => i = j

C28_UniqueByTag ==
    [][/\ C28_Unique(collaborators_table)
       /\ C28_Unique(collaborators_table')
       /\ (admin_ops' # admin_ops /\ srv_last'.op = "create"
             /\ srv_last'.data.rfid_tag # None
             /\ \E j \in DOMAIN collaborators_table :
                   collaborators_table[j].rfid_tag = srv_last'.data.rfid_tag[1])
          => /\ srv_last'.status = 400
             /\ UNCHANGED <<collaborators_table, collaborators_seq>>
       /\ (admin_ops' # admin_ops /\ srv_last'.op = "update"
             /\ srv_last'.id \in DOMAIN collaborators_table
             /\ srv_last'.data.rfid_tag # None
             /\ \E j \in (DOMAIN collaborators_table) \ {srv_last'.id} :
                   collaborators_table[j].rfid_tag = srv_last'.data.rfid_tag[1])
          => /\ srv_last'.status = 400
             /\ UNCHANGED <<collaborators_table, collaborators_seq>>
       /\ (network = "served" /\ (IsRead \/ pc' # pc) /\ last'.body # None)
          => LET data == last'.body[1]
             IN  /\ Cardinality(DOMAIN data) = Cardinality(DOMAIN collaborators_table)
                 /\ \A i \in DOMAIN collaborators_table :
                       LET row == collaborators_table[i]
                       IN  /\ row.rfid_tag \in DOMAIN data
                           /\ data[row.rfid_tag] = Collab(row.name, row.has_access)]_vars

\* A collaborator was created with a new tag, and the request to give it
\* the tag RFID001, which another holds, has been answered 400.
C28_Witness ==
    /\ srv_last.op = "update"
    /\ srv_last.status = 400
    /\ srv_last.data.rfid_tag = Some("RFID001")
    /\ srv_last.id \in DOMAIN collaborators_table
    /\ collaborators_table[srv_last.id].rfid_tag = "RFID999"
    /\ collaborators_table[1].rfid_tag = "RFID001"

(* C29: a refresh that fails leaves the time of the last update as it was, *)
(* so a refresh is still due; while one is due, every read that passes the *)
(* debounce attempts one, however soon after the last attempt, and one     *)
(* stays due until an attempt succeeds.  Once the network answers every    *)
(* fetch, and while reads go on being processed, the cache comes to hold a *)
(* snapshot fetched less than the refresh interval ago.                    *)
C29_Due(upd, now) ==
    upd = None \/ now - upd[1] >= TicksPerSecond * CACHE_REFRESH_INTERVAL

C29_RetryEachRead ==
    [][/\ ((IsRead \/ pc' # pc) /\ last'.ret = Some(FALSE))
          => /\ cache_last_update' = cache_last_update
             /\ C29_Due(cache_last_update', clock')
       /\ (C29_Due(cache_last_update, clock) /\ IsProcessed)
          => last'.ret # None
       /\ (C29_Due(cache_last_update, clock) /\ last'.ret # Some(TRUE))
          => C29_Due(cache_last_update', clock')]_vars

C29_EventuallyFresh ==
    (network = "healed" /\ reads < ReadBound("healed"))
       ~> ~C29_Due(cache_last_update, clock)

C29_RetryUntilFresh == C29_RetryEachRead /\ C29_EventuallyFresh

\* No refresh has succeeded since the start: the second read, less than the
\* interval after the first read of the tag, attempted one again, which
\* failed as those before it.
C29_Witness ==
    /\ cache_last_update = None
    /\ reads = 2
    /\ last.allowed
    /\ last.ret = Some(FALSE)
    /\ last.since # None
    /\ last.at - last.since[1] < TicksPerSecond * CACHE_REFRESH_INTERVAL

(* C30: in every state of the reader the counters account for the events  *)
(* produced so far: the invasion attempts are the Unknown events, the      *)
(* denied attempts of all names together are the Denied events, and the    *)
(* times in room of all names together are the durations of the Exit       *)
(* events together.                                                        *)
RECURSIVE C30_Sum(_)
C30_Sum(d) ==
    IF DOMAIN d = {} THEN 0
    ELSE LET k == CHOOSE k \in DOMAIN d : TRUE
         IN  d[k] + C30_Sum([x \in (DOMAIN d) \ {k} |-> d[x]])

C30_Accounted ==
    /\ session_stats.invasion_attempts = tally.unknown
    /\ C30_Sum(session_stats.access_attempts) = tally.denied
    /\ C30_Sum(session_stats.time_in_room) = tally.exit_time

\* A session with an Exit, a Denied and an Unknown event: each counter has
\* what the events gave it.
C30_Witness ==
    /\ tally.unknown > 0
    /\ tally.denied > 0
    /\ tally.exit_time > 0
    /\ session_stats.invasion_attempts = tally.unknown
    /\ C30_Sum(session_stats.time_in_room) = tally.exit_time
    /\ DOMAIN session_stats.access_attempts # {}

----------------------------------------------------------------------------
(* C31: an Exit adds the duration of the stay to time_in_room under the    *)
(* name the cache gives for the tag once the read's refresh is over, and   *)
(* to no other name, whatever name the presence entry has held since the   *)
(* Entry; the Exit leaves the name of the presence entry as it was, and an *)
(* Entry sets it to the name the cache gives.  So a stay whose tag was     *)
(* renamed by a refresh between Entry and Exit is credited whole to the    *)
(* new name, and the entry keeps the old name until the next Entry.        *)
C31_CreditedToCacheName ==
    [][IsProcessed
       => LET tag == last'.tag
              kind == EventKind(last')
          IN  /\ kind = "exit"
                 => LET name == collaborators_cache'[tag].name
                    IN  /\ name \in DOMAIN session_stats'.time_in_room
                        /\ session_stats'.time_in_room[name]
                              = Count(session_stats.time_in_room, name)
                                + last'.duration[1]
                        /\ SameBut(session_stats.time_in_room,
                                   session_stats'.time_in_room, name)
                        /\ last'.duration[1]
                              = clock' - Seconds(ExitLedSeconds) - HalfSecond
                                - presence_control[tag].entry_time
                        /\ presence_control'[tag].name = presence_control[tag].name
              /\ kind = "entry"
                 => presence_control'[tag].name = collaborators_cache'[tag].name
              /\ kind \in {"denied", "unknown"}
                 => presence_control' = presence_control]_vars

\* The tag was renamed between its Entry and its Exit: the stay is credited
\* to the new name, nothing to the old one, which the presence entry still
\* holds; and a later Entry has replaced it.
C31_Witness ==
    /\ EventKind(last) = "entry"
    /\ reads = 3
    /\ last.first = Some(FALSE)
    /\ presence_control[last.tag].name = "Ana Costa"
    /\ DOMAIN session_stats.time_in_room = {"Ana Costa"}
    /\ session_stats.time_in_room["Ana Costa"] > 0
    /\ \E i \in DOMAIN access_logs :
          /\ access_logs[i].event_type = "entry"
          /\ access_logs[i].collaborator_name = "Joao Silva"

----------------------------------------------------------------------------
(* C32: a request to list, create, update or delete collaborators or to    *)
(* query the logs that comes without a Bearer token, or with a token that  *)
(* is not stored or has expired (the host's clock has passed its           *)
(* expires_at), is answered 401 and leaves the collaborators and the logs  *)
(* as they were; the snapshot endpoint and the log-submission endpoint     *)
(* answer requests without a token.                                        *)
C32_Protected == {"list", "create", "update", "delete", "logs"}
C32_Open == {"snapshot", "log"}

\* This step is a request made of app.py directly, other than a login.
C32_IsRequest ==
    /\ admin_ops' = admin_ops + 1
    /\ srv_last'.op \in C32_Protected \cup C32_Open

\* The header carries a Bearer token that is stored.
C32_Stored(authorization) ==
    /\ authorization # None
    /\ authorization[1][1] = "Bearer"
    /\ authorization[1][2] \in DOMAIN auth_tokens

\* The host's clock has passed the token's expires_at.
C32_Expired(token) ==
    LocalTime(clock, utc_offset) > auth_tokens[token].expires_at

C32_Refused ==
    /\ srv_last'.status = 401
    /\ collaborators_table' = collaborators_table
    /\ collaborators_seq' = collaborators_seq
    /\ access_logs' = access_logs

C32_OpenAccepted ==
    srv_last'.op \in C32_Open => srv_last'.status \in {200, 201}

C32_AsStated ==
    [][C32_IsRequest
       => /\ (/\ srv_last'.op \in C32_Protected
              /\ \/ ~C32_Stored(srv_auth')
                 \/ C32_Expired(srv_auth'[1][2]))
             => C32_Refused
          /\ C32_OpenAccepted]_vars

\* What does hold: the same, the expired token being refused on a host whose
\* zone is not ahead of UTC; and a request answered 401 changes nothing.
C32_HostNotAhead ==
    [][C32_IsRequest
       => /\ (/\ srv_last'.op \in C32_Protected
              /\ \/ ~C32_Stored(srv_auth')
                 \/ /\ C32_Expired(srv_auth'[1][2])
                    /\ utc_offset <= 0)
             => C32_Refused
          /\ srv_last'.status = 401 => C32_Refused
          /\ C32_OpenAccepted]_vars

\* On a host at UTC, a request to delete that came with a token given nine
\* hours before was refused.
C32_Witness ==
    /\ utc_offset = 0
    /\ srv_last.op = "delete"
    /\ srv_last.status = 401
    /\ C32_Stored(srv_auth)
    /\ C32_Expired(srv_auth[1][2])

----------------------------------------------------------------------------
(* C33: every event handed to log_to_api, by the reader and by the         *)
(* simulator, is for the tag read, has access_granted true exactly when it *)
(* is an Entry or an Exit and false exactly when it is Denied or Unknown;  *)
(* an Unknown event is for a tag the cache does not hold and carries the   *)
(* placeholder name, every other event carries the name the cache gives    *)
(* for the tag once the read's refresh is over.                            *)
C33_Payload(e, rfid_tag, cache) ==
    /\ e.rfid_tag = rfid_tag
    /\ e.event_type \in EventKinds
    /\ e.access_granted = (e.event_type \in {"entry", "exit"})
    /\ (~e.access_granted) = (e.event_type \in {"denied", "unknown"})
    /\ e.event_type = "unknown"
          => /\ rfid_tag \notin DOMAIN cache
             /\ e.collaborator_name = UnknownName
    /\ e.event_type # "unknown"
          => /\ rfid_tag \in DOMAIN cache
             /\ e.collaborator_name = cache[rfid_tag].name

C33_WellFormedEvents ==
    [][/\ IsRead
          => \A i \in DOMAIN last'.out :
                C33_Payload(last'.out[i], last'.tag, collaborators_cache')
       /\ sim_ops' = sim_ops + 1
          => \A i \in DOMAIN sim_last'.out :
                C33_Payload(sim_last'.out[i], sim_last'.tag, sim_collaborators')]_vars

\* The reader has logged an Unknown event under the placeholder name, a
\* Denied event, and now an Exit, granted, under the name its cache gives.
C33_Witness ==
    /\ tally.unknown > 0
    /\ tally.denied > 0
    /\ EventKind(last) = "exit"
    /\ last.out[1].access_granted
    /\ last.out[1].collaborator_name = collaborators_cache[last.tag].name
    /\ last.out[1].collaborator_name # UnknownName

====
